---- MODULE Spec2Model ----
(***************************************************************************)
(* Verification model of the EMUWII emulator core.                         *)
(*                                                                         *)
(* The repository holds several drafts of the same machine.  Modelled are  *)
(*   - src/emuwiiv1.cpp : the richest draft (address translation, memory,  *)
(*     interrupt controller, Starlet mailbox, executor, boot and run loop) *)
(*   - src/wiiemu.cpp   : the draft with the fatal unknown-opcode policy   *)
(*   - src/emuwiiv0.cpp : class Memory (MEM1/MEM2 windows, I/O registers)  *)
(*                                                                         *)
(* 32-bit words.  TLC integers are 32-bit signed, so a uint32_t is the     *)
(* pair <<hi, lo>> of its two 16-bit halves; arithmetic is done on the     *)
(* halves with carry, i.e. modulo 2^32, and bit operations bit by bit.     *)
(***************************************************************************)
EXTENDS Integers, Sequences, FiniteSets, TLC

VARIABLES
    phase,              \* position of main(): v1 boot steps and loop position
    state,              \* CPUState
    memory,             \* uint8_t memory[MEMORY_SIZE], sparse: offset -> non-zero byte
    framebuffer,        \* uint32_t framebuffer[], sparse: pixel index -> non-zero word
    starlet_memory,     \* StarletMemory mailbox
    interrupt_vectors,  \* std::map<int, uint32_t>
    audio_state,        \* AudioState: initialized flag and sparse buffer
    trace,              \* observation log: calls of trigger_interrupt, last unit call
    mem1,               \* emuwiiv0 Memory::mem1 (sparse)
    mem2,               \* emuwiiv0 Memory::mem2 (sparse)
    io                  \* emuwiiv0 Memory I/O registers and the Input device state

vars == <<phase, state, memory, framebuffer, starlet_memory, interrupt_vectors,
          audio_state, trace, mem1, mem2, io>>

----------------------------------------------------------------------------
(* uint32_t arithmetic on <<hi, lo>> pairs                                  *)

H == 65536

U32(hi, lo) == <<hi, lo>>

Zero32 == U32(0, 0)

\* conversion of a C++ int in -2^31 < n < 2^31 to uint32_t (two's complement)
FromInt(n) ==
    IF n >= 0 THEN U32(n \div H, n % H)
    ELSE LET m == -n
             lo == (H - (m % H)) % H
             borrow == IF m % H = 0 THEN 0 ELSE 1
         IN U32((2 * H - (m \div H) - borrow) % H, lo)

Add32(a, b) ==
    LET s == a[2] + b[2]
    IN U32((a[1] + b[1] + (s \div H)) % H, s % H)

Neg32(a) == Add32(U32(H - 1 - a[1], H - 1 - a[2]), U32(0, 1))

Sub32(a, b) == Add32(a, Neg32(b))

AddInt(a, n) == Add32(a, FromInt(n))

Lt32(a, b) == a[1] < b[1] \/ (a[1] = b[1] /\ a[2] < b[2])

Le32(a, b) == a = b \/ Lt32(a, b)

\* value of a uint32_t reinterpreted as int32_t is negative
Neg32Sign(a) == a[1] >= 32768

\* the two words are compared as unsigned values
SLt32_unsigned(a, b) == Lt32(a, b)

\* signed comparison of two uint32_t reinterpreted as int32_t
SLt32(a, b) ==
    IF Neg32Sign(a) # Neg32Sign(b) THEN Neg32Sign(a) ELSE Lt32(a, b)

\* 2^n for 0 <= n <= 15
PowTable == <<1, 2, 4, 8, 16, 32, 64, 128, 256, 512, 1024, 2048, 4096, 8192, 16384, 32768>>

Pow2(n) == PowTable[n + 1]

\* bit n (0 = least significant) of a 16-bit half
HalfBit(x, n) == (x \div Pow2(n)) % 2

AndBit(x, y, n) == HalfBit(x, n) * HalfBit(y, n) * Pow2(n)

OrBit(x, y, n) == (IF HalfBit(x, n) = 1 \/ HalfBit(y, n) = 1 THEN 1 ELSE 0) * Pow2(n)

AndNibble(x, y, n) ==
    (AndBit(x, y, n) + AndBit(x, y, n + 1)) + (AndBit(x, y, n + 2) + AndBit(x, y, n + 3))

OrNibble(x, y, n) ==
    (OrBit(x, y, n) + OrBit(x, y, n + 1)) + (OrBit(x, y, n + 2) + OrBit(x, y, n + 3))

\* x & y and x | y on 16-bit halves
BitAnd(x, y) ==
    (AndNibble(x, y, 0) + AndNibble(x, y, 4)) + (AndNibble(x, y, 8) + AndNibble(x, y, 12))

BitOr(x, y) ==
    (OrNibble(x, y, 0) + OrNibble(x, y, 4)) + (OrNibble(x, y, 8) + OrNibble(x, y, 12))

And32(a, b) == U32(BitAnd(a[1], b[1]), BitAnd(a[2], b[2]))

Or32(a, b) == U32(BitOr(a[1], b[1]), BitOr(a[2], b[2]))

Not32(a) == U32(H - 1 - a[1], H - 1 - a[2])

\* bit n of a word, n counted from the least significant bit (0..31)
Bit32(a, n) == IF n >= 16 THEN HalfBit(a[1], n - 16) ELSE HalfBit(a[2], n)

\* a << n for 0 <= n < 32 where only the 4 low bits of a are set (a < 16)
ShlNibble(a, n) ==
    IF n >= 16 THEN U32((a * Pow2(n - 16)) % H, 0)
    ELSE U32((a * Pow2(n)) \div H, (a * Pow2(n)) % H)

\* x * y for two 16-bit halves, as a 32-bit word
Mul16(x, y) ==
    LET p1 == x * (y \div 256)
        p0 == x * (y % 256)
    IN Add32(U32(p1 \div 256, (p1 % 256) * 256), U32(p0 \div H, p0 % H))

\* a * b mod 2^32
Mul32(a, b) ==
    Add32(Mul16(a[2], b[2]), U32((Mul16(a[1], b[2])[2] + Mul16(a[2], b[1])[2]) % H, 0))

\* the integer value of a word known to be below 2^31
ToInt(a) == a[1] * H + a[2]

\* int16_t x = (low 16 bits): the value as a C++ int
SignExt16(lo) == IF lo >= 32768 THEN lo - H ELSE lo

----------------------------------------------------------------------------
(* Sparse arrays: a zero-initialised C array is a function defined on the  *)
(* indices holding a non-zero value; every other index reads 0.            *)

EmptyMap == << >>

\* e, computed after v has been computed (operator arguments are evaluated
\* on demand; a loop hands each iteration a finished value this way)
After(v, e) == IF v = v THEN e ELSE e

Fetch(m, k, zero) == IF k \in DOMAIN m THEN m[k] ELSE zero

\* m with m[k] := v.  (f @@ g builds the explicit function, so a chain of
\* stores is evaluated store by store.)
Store(m, k, v, zero) ==
    IF v = zero THEN [x \in (DOMAIN m) \ {k} |-> m[x]] @@ EmptyMap
    ELSE (k :> v) @@ m

----------------------------------------------------------------------------
(* src/emuwiiv1.cpp : constants                                            *)

MEMORY_SIZE == U32(1408, 0)                 \* (24 + 64) * 1024 * 1024 = 0x05800000
MEM_MASK == U32(1407, 65535)                \* MEMORY_SIZE - 1        = 0x057FFFFF
SCREEN_WIDTH == 640
SCREEN_HEIGHT == 480
KERNEL_BASE_ADDR == U32(32768, 0)           \* 0x80000000
INTERRUPT_TABLE_BASE == U32(32768, 12288)   \* 0x80003000
RAM_START == U32(32768, 0)                  \* 0x80000000
RAM_END == U32(33279, 65535)                \* 0x81FFFFFF
HARDWARE_REGS_START == U32(52224, 0)        \* 0xCC000000
HARDWARE_REGS_END == U32(52224, 65535)      \* 0xCC00FFFF
STARLET_MEM_START == U32(52480, 0)          \* 0xCD000000
STARLET_MEM_END == U32(52480, 65535)        \* 0xCD00FFFF
HW_REGS_PHYS == U32(256, 0)                 \* 0x1000000
STARLET_PHYS == U32(272, 0)                 \* 0x1100000
FB_ALIAS_START == U32(36864, 0)             \* 0x90000000
FB_ALIAS_END == U32(36882, 49152)           \* 0x90000000 + 640*480*4 = 0x9012C000
RFI_STUB == U32(19456, 100)                 \* 0x4C000064

----------------------------------------------------------------------------
(* src/emuwiiv1.cpp : Address Translator and Memory Unit                   *)

\* the fallback returns the address unmasked
translate_address_noMask(virtual_addr) ==
    IF Le32(RAM_START, virtual_addr) /\ Le32(virtual_addr, RAM_END)
    THEN And32(Sub32(virtual_addr, RAM_START), MEM_MASK)
    ELSE IF Le32(HARDWARE_REGS_START, virtual_addr) /\ Le32(virtual_addr, HARDWARE_REGS_END)
    THEN And32(Add32(HW_REGS_PHYS, Sub32(virtual_addr, HARDWARE_REGS_START)), MEM_MASK)
    ELSE IF Le32(STARLET_MEM_START, virtual_addr) /\ Le32(virtual_addr, STARLET_MEM_END)
    THEN And32(Add32(STARLET_PHYS, Sub32(virtual_addr, STARLET_MEM_START)), MEM_MASK)
    ELSE virtual_addr

translate_address(virtual_addr) ==
    IF Le32(RAM_START, virtual_addr) /\ Le32(virtual_addr, RAM_END)
    THEN And32(Sub32(virtual_addr, RAM_START), MEM_MASK)
    ELSE IF Le32(HARDWARE_REGS_START, virtual_addr) /\ Le32(virtual_addr, HARDWARE_REGS_END)
    THEN And32(Add32(HW_REGS_PHYS, Sub32(virtual_addr, HARDWARE_REGS_START)), MEM_MASK)
    ELSE IF Le32(STARLET_MEM_START, virtual_addr) /\ Le32(virtual_addr, STARLET_MEM_END)
    THEN And32(Add32(STARLET_PHYS, Sub32(virtual_addr, STARLET_MEM_START)), MEM_MASK)
    ELSE And32(virtual_addr, MEM_MASK)

\* the bounds check shared by read_word and write_word
OutOfBounds(physical_addr) == Le32(MEMORY_SIZE, AddInt(physical_addr, 3))

MemByte(mem, p) == Fetch(mem, p, 0)

read_word(mem, address) ==
    LET physical_addr == translate_address(address)
    IN IF OutOfBounds(physical_addr) THEN Zero32
       ELSE U32(MemByte(mem, physical_addr) * 256 + MemByte(mem, AddInt(physical_addr, 1)),
                MemByte(mem, AddInt(physical_addr, 2)) * 256
                    + MemByte(mem, AddInt(physical_addr, 3)))

\* the four bytes stored least significant first
StoreBytes_littleEndian(mem, p, value) ==
    LET m0 == Store(mem, p, value[2] % 256, 0)
        m1 == Store(m0, AddInt(p, 1), value[2] \div 256, 0)
        m2 == Store(m1, AddInt(p, 2), value[1] % 256, 0)
    IN Store(m2, AddInt(p, 3), value[1] \div 256, 0)

\* the four byte stores of write_word, in program order
StoreBytes(mem, p, value) ==
    LET m0 == Store(mem, p, value[1] \div 256, 0)
        m1 == Store(m0, AddInt(p, 1), value[1] % 256, 0)
        m2 == Store(m1, AddInt(p, 2), value[2] \div 256, 0)
    IN Store(m2, AddInt(p, 3), value[2] % 256, 0)

\* the bytes are stored without the bounds check
write_word_unchecked(mem, fb, address, value) ==
    LET physical_addr == translate_address(address)
        mem2x == StoreBytes(mem, physical_addr, value)
        inAlias == Le32(FB_ALIAS_START, address) /\ Lt32(address, FB_ALIAS_END)
        pixel_offset == ToInt(Sub32(address, FB_ALIAS_START)) \div 4
    IN IF inAlias /\ pixel_offset < SCREEN_WIDTH * SCREEN_HEIGHT
       THEN <<mem2x, Store(fb, pixel_offset, value, Zero32)>>
       ELSE <<mem2x, fb>>

\* the word is stored in memory only
write_word_noMirror(mem, fb, address, value) ==
    LET physical_addr == translate_address(address)
    IN IF OutOfBounds(physical_addr) THEN <<mem, fb>>
       ELSE <<StoreBytes(mem, physical_addr, value), fb>>

\* write_word: the pair <<memory, framebuffer>> after the call
write_word(mem, fb, address, value) ==
    LET physical_addr == translate_address(address)
    IN IF OutOfBounds(physical_addr) THEN <<mem, fb>>
       ELSE LET mem2x == StoreBytes(mem, physical_addr, value)
                inAlias == Le32(FB_ALIAS_START, address) /\ Lt32(address, FB_ALIAS_END)
                pixel_offset == ToInt(Sub32(address, FB_ALIAS_START)) \div 4
            IN IF inAlias /\ pixel_offset < SCREEN_WIDTH * SCREEN_HEIGHT
               THEN <<mem2x, Store(fb, pixel_offset, value, Zero32)>>
               ELSE <<mem2x, fb>>

----------------------------------------------------------------------------
(* src/emuwiiv1.cpp : CPUState, StarletMemory                              *)

\* the special-register slots any handler touches: 0 = condition flags, 8 = link
CR == 0
LR == 8

\* CPUState::CPUState().  The paired-single lanes (fpr) are floats and are
\* not part of the modelled state.
CPUState ==
    [pc |-> Zero32,
     gpr |-> [r \in 0..31 |-> Zero32],
     spr |-> [s \in {CR, LR} |-> Zero32],
     running |-> TRUE,
     interrupts_enabled |-> FALSE,
     kernel_mode |-> TRUE,
     cycle_count |-> 0]

\* StarletMemory::StarletMemory()
StarletMemory ==
    [command |-> Zero32, response |-> Zero32, param_addr |-> Zero32,
     result_addr |-> Zero32, status |-> Zero32]

\* AudioState after initialize_audio(): 1 second of 32000 Hz stereo 16-bit
AUDIO_BUFFER_SIZE == 128000

AudioState == [initialized |-> TRUE, buffer |-> EmptyMap]

----------------------------------------------------------------------------
(* src/emuwiiv1.cpp : Interrupt Controller                                 *)

\* the vector table written by initialize_kernel
KernelVectors == [t \in 0..11 |-> AddInt(INTERRUPT_TABLE_BASE, 16 * t)]

get_interrupt_vector(interrupt_type, vecs) ==
    IF interrupt_type \in DOMAIN vecs THEN vecs[interrupt_type]
    ELSE INTERRUPT_TABLE_BASE

trigger_interrupt_dropKernel(interrupt_type, st, vecs) ==
    IF st.interrupts_enabled
    THEN [st EXCEPT !.spr[LR] = st.pc,
                    !.pc = get_interrupt_vector(interrupt_type, vecs),
                    !.interrupts_enabled = FALSE]
    ELSE st

trigger_interrupt_ignoreFlag(interrupt_type, st, vecs) ==
    [st EXCEPT !.spr[LR] = st.pc,
               !.pc = get_interrupt_vector(interrupt_type, vecs),
               !.interrupts_enabled = FALSE,
               !.kernel_mode = TRUE]

\* the interrupt is entered whether or not interrupts are enabled
trigger_interrupt_always(interrupt_type, st, vecs) ==
    [st EXCEPT !.spr[LR] = st.pc,
               !.pc = get_interrupt_vector(interrupt_type, vecs),
               !.interrupts_enabled = FALSE,
               !.kernel_mode = TRUE]

trigger_interrupt(interrupt_type, st, vecs) ==
    IF st.interrupts_enabled
    THEN [st EXCEPT !.spr[LR] = st.pc,
                    !.pc = get_interrupt_vector(interrupt_type, vecs),
                    !.interrupts_enabled = FALSE,
                    !.kernel_mode = TRUE]
    ELSE st

----------------------------------------------------------------------------
(* src/emuwiiv1.cpp : Starlet coprocessor mailbox                          *)

STARLET_IRQ == 1
SYSCALL_IRQ == 9
CMD_INIT == 1
CMD_RESET == 2
CMD_READ == 3
CMD_WRITE == 4
CMD_AUDIO == 5
RESP_OK == Zero32
RESP_FAIL == U32(0, 1)
RESP_ERROR == U32(0, 255)
STATUS_DONE == U32(0, 1)

\* for (uint32_t i = 0; i < size; i += 4) write_word(dest + i, read_word(src + i));
\* the pair <<memory, framebuffer>> after the loop started at index i
RECURSIVE CopyLoop(_, _, _, _, _, _)
CopyLoop(mem, fb, src_addr, dest_addr, size, i) ==
    IF ~Lt32(i, size) THEN <<mem, fb>>
    ELSE LET data == read_word(mem, Add32(src_addr, i))
             w == write_word(mem, fb, Add32(dest_addr, i), data)
         IN After(w, CopyLoop(w[1], w[2], src_addr, dest_addr, size, AddInt(i, 4)))

\* for (uint32_t i = 0; i < buffer_size; i++) buffer[i] = memory[translate(addr + i)];
RECURSIVE AudioCopy(_, _, _, _, _)
AudioCopy(buf, mem, buffer_addr, buffer_size, i) ==
    IF i >= buffer_size THEN buf
    ELSE LET b == Store(buf, i, MemByte(mem, translate_address(AddInt(buffer_addr, i))), 0)
         IN After(b, AudioCopy(b, mem, buffer_addr, buffer_size, i + 1))

BlockTransfer_swapped(mem, fb, param_addr) ==
    LET src_addr == read_word(mem, AddInt(param_addr, 4))
        dest_addr == read_word(mem, param_addr)
        size == read_word(mem, AddInt(param_addr, 8))
    IN CopyLoop(mem, fb, src_addr, dest_addr, size, Zero32)

\* the block transfer of case 0x03 and case 0x04 (identical bodies)
BlockTransfer(mem, fb, param_addr) ==
    LET src_addr == read_word(mem, param_addr)
        dest_addr == read_word(mem, AddInt(param_addr, 4))
        size == read_word(mem, AddInt(param_addr, 8))
    IN CopyLoop(mem, fb, src_addr, dest_addr, size, Zero32)

\* the command slot is not emptied
StarletDone_keepCommand(st, sm, vecs, c, a) ==
    LET updated == [sm EXCEPT !.response = a[2], !.status = STATUS_DONE]
    IN [handled |-> TRUE,
        state |-> trigger_interrupt(STARLET_IRQ, st, vecs),
        memory |-> c[1],
        framebuffer |-> c[2],
        starlet_memory |-> updated,
        audio_state |-> a[1],
        triggers |-> <<STARLET_IRQ>>,
        seen |-> <<updated>>]

\* a handled command stops the machine
StarletDone_stops(st, sm, vecs, c, a) ==
    LET updated == [sm EXCEPT !.response = a[2], !.status = STATUS_DONE,
                              !.command = Zero32]
    IN [handled |-> TRUE,
        state |-> [trigger_interrupt(STARLET_IRQ, st, vecs) EXCEPT !.running = FALSE],
        memory |-> c[1],
        framebuffer |-> c[2],
        starlet_memory |-> updated,
        audio_state |-> a[1],
        triggers |-> <<STARLET_IRQ>>,
        seen |-> <<updated>>]

\* the interrupt is raised before the mailbox is updated
StarletDone_triggerFirst(st, sm, vecs, c, a) ==
    LET updated == [sm EXCEPT !.response = a[2], !.status = STATUS_DONE,
                              !.command = Zero32]
    IN [handled |-> TRUE,
        state |-> trigger_interrupt(STARLET_IRQ, st, vecs),
        memory |-> c[1],
        framebuffer |-> c[2],
        starlet_memory |-> updated,
        audio_state |-> a[1],
        triggers |-> <<STARLET_IRQ>>,
        seen |-> <<sm>>]

\* the statements after the switch: status, command, trigger_interrupt(1),
\* reached with the pair c = <<memory, framebuffer>> and the pair
\* a = <<audio_state, response>> the case left.  triggers is the sequence of
\* interrupt types passed to trigger_interrupt, seen the mailbox as it is at
\* each of those calls.
StarletDone(st, sm, vecs, c, a) ==
    LET updated == [sm EXCEPT !.response = a[2], !.status = STATUS_DONE,
                              !.command = Zero32]
    IN [handled |-> TRUE,
        state |-> trigger_interrupt(STARLET_IRQ, st, vecs),
        memory |-> c[1],
        framebuffer |-> c[2],
        starlet_memory |-> updated,
        audio_state |-> a[1],
        triggers |-> <<STARLET_IRQ>>,
        seen |-> <<updated>>]

\* handle_starlet_command: the machine after one poll
handle_starlet_command(st, mem, fb, sm, audio, vecs) ==
    LET cmd == sm.command
        done(c, a) == StarletDone(st, sm, vecs, c, a)
        updateAudio(buffer_addr, buffer_size) ==
            IF audio.initialized /\ Le32(buffer_size, FromInt(AUDIO_BUFFER_SIZE))
            THEN <<[audio EXCEPT !.buffer =
                      AudioCopy(audio.buffer, mem, buffer_addr, ToInt(buffer_size), 0)],
                   RESP_OK>>
            ELSE <<audio, RESP_FAIL>>
    IN CASE cmd = Zero32 ->
              [handled |-> FALSE, state |-> st, memory |-> mem, framebuffer |-> fb,
               starlet_memory |-> sm, audio_state |-> audio, triggers |-> <<>>,
               seen |-> <<>>]
         [] cmd \in {U32(0, CMD_INIT), U32(0, CMD_RESET)} ->
              done(<<mem, fb>>, <<audio, RESP_OK>>)
         [] cmd \in {U32(0, CMD_READ), U32(0, CMD_WRITE)} ->
              done(BlockTransfer(mem, fb, sm.param_addr), <<audio, RESP_OK>>)
         [] cmd = U32(0, CMD_AUDIO) ->
              done(<<mem, fb>>,
                   updateAudio(read_word(mem, sm.param_addr),
                               read_word(mem, AddInt(sm.param_addr, 4))))
         [] OTHER -> done(<<mem, fb>>, <<audio, RESP_ERROR>>)

----------------------------------------------------------------------------
(* src/emuwiiv1.cpp : instruction decode                                   *)

Opcode(instruction) == instruction[1] \div 1024          \* (instruction >> 26) & 0x3F
Field21(instruction) == (instruction[1] \div 32) % 32    \* (instruction >> 21) & 0x1F
Field16(instruction) == instruction[1] % 32              \* (instruction >> 16) & 0x1F
Field11(instruction) == instruction[2] \div 2048         \* (instruction >> 11) & 0x1F
Imm16(instruction) == SignExt16(instruction[2])          \* int16_t imm = instruction & 0xFFFF

\* uint8_t xo = (instruction >> 1) & 0x3FF : the 10-bit field narrowed to 8 bits
ExtOpcode(instruction) == (((instruction[2] \div 2) % 1024) % 256)

\* (instruction >> 23) & 0x7
CrField(instruction) == (instruction[1] \div 128) % 8

\* x << 2 on uint32_t
Shl2(x) == U32((x[1] * 4 + (x[2] \div 16384)) % H, (x[2] * 4) % H)

\* static_cast<int32_t>(x) >> 2 : arithmetic shift, result as uint32_t bits
Sar2(x) ==
    LET hi == x[1] \div 4 + (IF Neg32Sign(x) THEN 49152 ELSE 0)
    IN U32(hi, (x[1] % 4) * 16384 + (x[2] \div 4))

\* the 26-bit field of a branch sign-extended to 32 bits (bit 25 is the sign)
SignExtend26(instruction) ==
    LET raw_offset == U32(instruction[1] % 1024, instruction[2])
    IN IF raw_offset[1] >= 512 THEN U32(raw_offset[1] + 64512, raw_offset[2])
       ELSE raw_offset

\* int32_t offset = static_cast<int32_t>(raw_offset << 2) >> 2, as uint32_t bits
BranchOffset(instruction) ==
    LET raw_offset == U32(instruction[1] % 1024, instruction[2])   \* & 0x03FFFFFF
    IN Sar2(Shl2(raw_offset))

\* static_cast<int16_t>(instruction & 0xFFFC)
CondOffset(instruction) == SignExt16(instruction[2] - (instruction[2] % 4))

\* (cr & (0x80000000 >> (cr_field * 4 + cr_bit))) != 0 with bi = 4 * cr_field + cr_bit
ConditionBit(cr, bi) == Bit32(cr, 31 - bi) = 1

branch_taken_invert(bo, condition) ==
    IF BitAnd(bo, 4) # 0 THEN TRUE
    ELSE IF BitAnd(bo, 8) # 0 THEN ~condition
    ELSE condition

branch_taken(bo, condition) ==
    IF BitAnd(bo, 4) # 0 THEN TRUE
    ELSE IF BitAnd(bo, 8) # 0 THEN condition
    ELSE ~condition

\* (state.spr[0] & ~(0xF << sh)) | (cr_val << sh) with sh = 28 - 4 * crfd
SetCrField(cr, crfd, cr_val) ==
    LET sh == 28 - 4 * crfd
    IN Or32(And32(cr, Not32(ShlNibble(15, sh))), ShlNibble(cr_val, sh))

\* uint32_t addr = (ra == 0) ? offset : state.gpr[ra] + offset
EffectiveAddr(st, ra, offset) ==
    IF ra = 0 THEN FromInt(offset) ELSE AddInt(st.gpr[ra], offset)

Advance(st) == [st EXCEPT !.pc = AddInt(st.pc, 4)]

----------------------------------------------------------------------------
(* src/emuwiiv1.cpp : execute_instruction, one definition per case         *)

ExecAdd_noCarry(i, st) ==
    LET ra == Field21(i)
        rb == Field16(i)
        rd == Field11(i)
    IN Advance([st EXCEPT !.gpr[rd] =
                  U32((st.gpr[ra][1] + st.gpr[rb][1]) % H,
                      (st.gpr[ra][2] + st.gpr[rb][2]) % H)])

ExecAdd(i, st) ==
    LET ra == Field21(i)
        rb == Field16(i)
        rd == Field11(i)
    IN Advance([st EXCEPT !.gpr[rd] = Add32(st.gpr[ra], st.gpr[rb])])

\* register index 0 in the source field reads as the literal 0
ExecAddi_zeroBase(i, st) ==
    LET ra == Field21(i)
        rd == Field16(i)
    IN Advance([st EXCEPT !.gpr[rd] =
                  IF ra = 0 THEN FromInt(Imm16(i)) ELSE AddInt(st.gpr[ra], Imm16(i))])

ExecAddi(i, st) ==
    LET ra == Field21(i)
        rd == Field16(i)
    IN Advance([st EXCEPT !.gpr[rd] = AddInt(st.gpr[ra], Imm16(i))])

\* imm << 16 on the promoted int: the low half of the instruction becomes the
\* high half of the addend (two's complement for a negative imm)
ExecAddis(i, st) ==
    LET ra == Field21(i)
        rd == Field16(i)
    IN Advance([st EXCEPT !.gpr[rd] = Add32(st.gpr[ra], U32(i[2], 0))])

ExecExtended(i, st) ==
    LET xo == ExtOpcode(i)
        ra == Field21(i)
        rb == Field16(i)
        rd == Field11(i)
        a == st.gpr[ra]
        b == st.gpr[rb]
        cr_val == IF SLt32(a, b) THEN 8 ELSE IF SLt32(b, a) THEN 4 ELSE 2
    IN IF xo = 266                                       \* 0x10A SUB
       THEN Advance([st EXCEPT !.gpr[rd] = Sub32(a, b)])
       ELSE IF xo = 10                                   \* 0x00A CMP
       THEN Advance([st EXCEPT !.spr[CR] = SetCrField(st.spr[CR], CrField(i), cr_val)])
       ELSE Advance(st)

ExecBranch_linkPc(i, st) ==
    LET offset == BranchOffset(i)
        link == i[2] % 2 = 1
        absolute == (i[2] \div 2) % 2 = 1
        st1 == IF link THEN [st EXCEPT !.spr[LR] = st.pc] ELSE st
    IN IF absolute
       THEN [st1 EXCEPT !.pc = U32(offset[1], offset[2] - (offset[2] % 4))]
       ELSE [st1 EXCEPT !.pc = Add32(st.pc, offset)]

ExecBranch(i, st) ==
    LET offset == BranchOffset(i)
        link == i[2] % 2 = 1                             \* (instruction & 0x1) != 0
        absolute == (i[2] \div 2) % 2 = 1                \* (instruction & 0x2) != 0
        st1 == IF link THEN [st EXCEPT !.spr[LR] = AddInt(st.pc, 4)] ELSE st
    IN IF absolute
       THEN [st1 EXCEPT !.pc = U32(offset[1], offset[2] - (offset[2] % 4))]
       ELSE [st1 EXCEPT !.pc = Add32(st.pc, offset)]

ExecBranchCond(i, st) ==
    LET bo == Field21(i)
        bi == Field16(i)
        offset == CondOffset(i)
        link == i[2] % 2 = 1
        st1 == IF link THEN [st EXCEPT !.spr[LR] = AddInt(st.pc, 4)] ELSE st
        condition == ConditionBit(st.spr[CR], bi)
    IN IF branch_taken(bo, condition)
       THEN [st1 EXCEPT !.pc = AddInt(st.pc, offset)]
       ELSE [st1 EXCEPT !.pc = AddInt(st.pc, 4)]

\* only the low half of the word is loaded
ExecLwz_lowHalf(i, st, mem) ==
    LET rs == Field21(i)
        ra == Field16(i)
        addr == EffectiveAddr(st, ra, Imm16(i))
    IN Advance([st EXCEPT !.gpr[rs] = U32(0, read_word(mem, addr)[2])])

ExecLwz(i, st, mem) ==
    LET rs == Field21(i)
        ra == Field16(i)
        addr == EffectiveAddr(st, ra, Imm16(i))
    IN Advance([st EXCEPT !.gpr[rs] = read_word(mem, addr)])

\* the pair <<memory, framebuffer>> after STW's write_word
ExecStwMem(i, st, mem, fb) ==
    LET rs == Field21(i)
        ra == Field16(i)
        addr == EffectiveAddr(st, ra, Imm16(i))
    IN write_word(mem, fb, addr, st.gpr[rs])

\* the return also leaves kernel mode
ExecRfi_dropPrivilege(st) ==
    [st EXCEPT !.pc = st.spr[LR], !.interrupts_enabled = TRUE, !.kernel_mode = FALSE]

ExecRfi(st) == [st EXCEPT !.pc = st.spr[LR], !.interrupts_enabled = TRUE]

OP_ADD == 24
OP_ADDI == 25
OP_ADDIS == 28
OP_EXT == 31
OP_B == 18
OP_BC == 16
OP_PS_ADD == 60
OP_PS_SUB == 61
OP_PS_MUL == 62
OP_LWZ == 32
OP_STW == 36
OP_SYNC == 12
OP_SC == 19
OP_RFI == 17

KnownOpcodes ==
    {OP_ADD, OP_ADDI, OP_ADDIS, OP_EXT, OP_B, OP_BC, OP_PS_ADD, OP_PS_SUB,
     OP_PS_MUL, OP_LWZ, OP_STW, OP_SYNC, OP_SC, OP_RFI}

\* the cycle is counted by the handled opcodes only
execute_instruction_countKnown(instruction, st0, mem, fb, vecs) ==
    LET opcode == Opcode(instruction)
        st == [st0 EXCEPT !.cycle_count = st0.cycle_count + 1]
        pure(s) == [state |-> s, memory |-> mem, framebuffer |-> fb, triggers |-> <<>>]
    IN CASE opcode = OP_ADD -> pure(ExecAdd(instruction, st))
         [] opcode = OP_ADDI -> pure(ExecAddi(instruction, st))
         [] opcode = OP_ADDIS -> pure(ExecAddis(instruction, st))
         [] opcode = OP_EXT -> pure(ExecExtended(instruction, st))
         [] opcode = OP_B -> pure(ExecBranch(instruction, st))
         [] opcode = OP_BC -> pure(ExecBranchCond(instruction, st))
         [] opcode \in {OP_PS_ADD, OP_PS_SUB, OP_PS_MUL} -> pure(Advance(st))
         [] opcode = OP_LWZ -> pure(ExecLwz(instruction, st, mem))
         [] opcode = OP_STW ->
              LET w == ExecStwMem(instruction, st, mem, fb)
              IN [state |-> Advance(st), memory |-> w[1], framebuffer |-> w[2],
                  triggers |-> <<>>]
         [] opcode = OP_SYNC -> pure(Advance(st))
         [] opcode = OP_SC ->
              [state |-> trigger_interrupt(SYSCALL_IRQ, st, vecs), memory |-> mem,
               framebuffer |-> fb, triggers |-> <<SYSCALL_IRQ>>]
         [] opcode = OP_RFI -> pure(ExecRfi(st))
         [] OTHER -> pure(Advance(st0))

\* execute_instruction: cycle_count++ and the dispatch.  The result holds the
\* CPU state, memory and framebuffer after the call and the interrupt types
\* passed to trigger_interrupt.
execute_instruction(instruction, st0, mem, fb, vecs) ==
    LET opcode == Opcode(instruction)
        st == [st0 EXCEPT !.cycle_count = st0.cycle_count + 1]
        pure(s) == [state |-> s, memory |-> mem, framebuffer |-> fb, triggers |-> <<>>]
    IN CASE opcode = OP_ADD -> pure(ExecAdd(instruction, st))
         [] opcode = OP_ADDI -> pure(ExecAddi(instruction, st))
         [] opcode = OP_ADDIS -> pure(ExecAddis(instruction, st))
         [] opcode = OP_EXT -> pure(ExecExtended(instruction, st))
         [] opcode = OP_B -> pure(ExecBranch(instruction, st))
         [] opcode = OP_BC -> pure(ExecBranchCond(instruction, st))
         [] opcode \in {OP_PS_ADD, OP_PS_SUB, OP_PS_MUL} -> pure(Advance(st))
         [] opcode = OP_LWZ -> pure(ExecLwz(instruction, st, mem))
         [] opcode = OP_STW ->
              LET w == ExecStwMem(instruction, st, mem, fb)
              IN [state |-> Advance(st), memory |-> w[1], framebuffer |-> w[2],
                  triggers |-> <<>>]
         [] opcode = OP_SYNC -> pure(Advance(st))
         [] opcode = OP_SC ->
              [state |-> trigger_interrupt(SYSCALL_IRQ, st, vecs), memory |-> mem,
               framebuffer |-> fb, triggers |-> <<SYSCALL_IRQ>>]
         [] opcode = OP_RFI -> pure(ExecRfi(st))
         [] OTHER -> pure(Advance(st))

fetch_instruction(st, mem) == read_word(mem, st.pc)

----------------------------------------------------------------------------
(* Boot images: the byte streams load_game may read.  An image is the      *)
(* sparse content of the file; bytes the file does not hold stay 0.        *)

EncR(op, f21, f16, f11) == U32(op * 1024 + f21 * 32 + f16, f11 * 2048)

EncI(op, f21, f16, imm) == U32(op * 1024 + f21 * 32 + f16, FromInt(imm)[2])

EncB(d, aa, lk) == U32(OP_B * 1024 + (FromInt(d)[1] % 1024), FromInt(d)[2] + 2 * aa + lk)

EncBC(bo, bi, off, lk) == U32(OP_BC * 1024 + bo * 32 + bi, FromInt(off)[2] + lk)

\* primary opcode 0x1F, extended opcode 0x10A in bits 1..10
EncSub(ra, rb, rd) == U32(OP_EXT * 1024 + ra * 32 + rb, rd * 2048 + 266 * 2)

EncCmp(ra, rb) == U32(OP_EXT * 1024 + ra * 32 + rb, 10 * 2)

EncOp(op) == U32(op * 1024, 0)

\* byte k (0 = most significant) of a word, as the image file stores it
WordByte(w, k) ==
    IF k = 0 THEN w[1] \div 256
    ELSE IF k = 1 THEN w[1] % 256
    ELSE IF k = 2 THEN w[2] \div 256
    ELSE w[2] % 256

\* the non-zero bytes of a run of words stored from file offset off
Block(off, words) ==
    LET byteAt(k) == WordByte(words[(k \div 4) + 1], k % 4)
        nz == {k \in 0..(4 * Len(words) - 1) : byteAt(k) # 0}
    IN [p \in {FromInt(off + k) : k \in nz} |-> byteAt(ToInt(p) - off)] @@ EmptyMap

Program(words) == Block(0, words)

MaxSteps == 4
MaxIssue == 1

AddRegs == {0, 3, 31}
AddImmA == {5, -1}
AddImmB == {7, 1, -1}

AddImages ==
    {Program(<<EncI(OP_ADDI, 0, i, a), EncI(OP_ADDI, 0, j, b), EncR(OP_ADD, i, j, k)>>) :
        <<i, j, k, a, b>> \in AddRegs \X AddRegs \X AddRegs \X AddImmA \X AddImmB}

BranchDisp == {8, 256, 0, -4, -8, 33554428, -33554432}

BranchImages ==
    {Program(<<EncB(d, aa, lk)>>) : <<d, aa, lk>> \in BranchDisp \X {0, 1} \X {0, 1}}
    \cup {Program(<<EncOp(OP_SYNC), EncB(d, 0, lk)>>) : <<d, lk>> \in {-4, 8} \X {0, 1}}

CondImm == {-1, 0, 1}
CondBo == {8, 9, 24, 12, 0}
CondBi == {0, 1, 2, 3}
CondOff == {8, -8, 4, -32768}

\* addi r,0,a ; cmp r,r2 ; bc bo,bi,off.  With r = 1 the compare writes
\* condition field 0 (bits 0..3), with r = 31 field 7 (bits 28..31).
CondImages ==
    {Program(<<EncI(OP_ADDI, 0, 1, a), EncCmp(1, 2), EncBC(bo, bi, off, 0)>>) :
        <<a, bo, bi, off>> \in CondImm \X CondBo \X CondBi \X CondOff}
    \cup {Program(<<EncI(OP_ADDI, 0, 31, a), EncCmp(31, 2), EncBC(bo, bi, 8, 0)>>) :
        <<a, bo, bi>> \in CondImm \X {8, 12} \X {0, 29, 31}}
    \cup {Program(<<EncI(OP_ADDI, 0, 1, -1), EncCmp(1, 2), EncBC(8, bi, 8, 1)>>) :
        bi \in {0, 1}}

\* parameter blocks and data for the mailbox: block at P1 = 0x80000100
P1 == U32(32768, 256)
P2 == U32(32768, 288)
SrcAddrs == {U32(32768, 512), U32(49152, 512)}          \* 0x80000200, 0xC0000200
\* 0x80000300, 0xCD000010, 0x80000204 (overlaps the source), 0x857FFFFD (faults)
DestAddrs == {U32(32768, 768), U32(52480, 16), U32(32768, 516), U32(34175, 65533)}
Counts == {0, 4, 8, 16}

SourceData ==
    <<U32(4386, 13124), U32(21862, 30600), U32(39338, 48076), U32(56814, 65280),
      U32(258, 772)>>

MailboxImage(prog, src, dest, count) ==
    Program(prog) @@ Block(256, <<src, dest, FromInt(count)>>)
        @@ Block(288, <<U32(32768, 512), FromInt(6)>>) @@ Block(512, SourceData)

MailboxImages ==
    {MailboxImage(prog, src, dest, count) :
        <<prog, src, dest, count>> \in
            {<<EncOp(OP_RFI)>>, <<EncOp(OP_SYNC)>>} \X SrcAddrs \X DestAddrs \X Counts}

MiscImages ==
    {Program(<<EncOp(OP_SC)>>),
     Program(<<EncOp(OP_RFI), EncOp(OP_SC)>>),
     Program(<<EncB(8, 1, 1), EncOp(OP_SC), EncOp(OP_RFI)>>),
     Program(<<EncI(OP_ADDIS, 0, 1, 32767), EncI(OP_STW, 1, 0, 64), EncI(OP_LWZ, 2, 0, 64)>>),
     Program(<<EncI(OP_ADDIS, 0, 1, -28672), EncI(OP_STW, 1, 1, 4), EncI(OP_LWZ, 2, 1, 4)>>),
     Program(<<EncOp(OP_PS_ADD), EncOp(OP_PS_SUB), EncOp(OP_PS_MUL), EncOp(63)>>),
     Program(<<U32(OP_EXT * 1024 + 32 + 2, 266 * 2), U32(OP_EXT * 1024, 2)>>),
     Program(<<EncI(OP_ADDI, 0, 1, 5), EncI(OP_ADDI, 0, 2, 7), EncSub(1, 2, 3)>>),
     Program(<<EncI(OP_ADDI, 0, 4, -1), EncI(OP_ADDI, 0, 2, 1), EncCmp(4, 2), EncCmp(2, 4)>>),
     EmptyMap}

\* byte offsets of command, response, param_addr, result_addr, status in
\* struct StarletMemory
StarletFields == {0, 4, 8, 12, 16}

\* r1 = 0xCD000000, r2 = 1, store r2 at one of the first five words of the
\* coprocessor-memory window, load it back
WindowStoreImages ==
    {Program(<<EncI(OP_ADDIS, 0, 1, -13056), EncI(OP_ADDI, 0, 2, 1), EncI(OP_STW, 2, 1, off),
               EncI(OP_LWZ, 3, 1, off)>>) : off \in StarletFields}

\* files that hold the stub word 0x4C000064 at the offset of the system
\* call vector (0x3090): an absolute bl to the RFI at offset 8 arms the
\* interrupts, the SC at offset 4 enters the vector; or a direct branch to
\* the slot with interrupts disarmed
StubImages ==
    {Program(<<EncB(8, 1, 1), EncOp(OP_SC), EncOp(OP_RFI)>>) @@ Block(12432, <<RFI_STUB>>),
     Program(<<EncB(12432, 0, 0)>>) @@ Block(12432, <<RFI_STUB>>)}

\* r1 = 0xCC000000 (hardware registers) ; r2 = r1 + 7 ;
\* stw r2,d(r1) ; lwz r3,d(r1): the displacement stays in the window or
\* steps back to 0xCBFFFFFC, which the fallback mask sends to 0x017FFFFC
BaseStoreImages ==
    {Program(<<EncI(OP_ADDIS, 0, 1, hi), EncI(OP_ADDI, 1, 2, 7), EncI(OP_STW, 2, 1, d),
               EncI(OP_LWZ, 3, 1, d)>>) :
        <<hi, d>> \in {<<-13312, 0>>, <<-13312, -4>>, <<-13312, 32764>>}}

\* r0 = 0x100 ; r2 = r0 + 7 ; stw r2,d(0) ; lwz r3,d(0): register index 0 in the
\* base field
ZeroBaseImages ==
    {Program(<<EncI(OP_ADDI, 0, 0, 256), EncI(OP_ADDI, 0, 2, 7), EncI(OP_STW, 2, 0, d),
               EncI(OP_LWZ, 3, 0, d)>>) : d \in {64, -1, -4}}

\* bla 8 ; bla 16 ; rfi, with a return from interrupt as the handler of the
\* coprocessor interrupt (0x3010): the rfi at 8 arms the interrupts and
\* returns to 4, the branch at 4 latches 8 in the link register
LinkImages ==
    {Program(<<EncB(8, 1, 1), EncB(16, 1, 1), EncOp(OP_RFI)>>)
        @@ Block(12304, <<EncOp(OP_RFI)>>)}

\* a parameter block with a byte count that is not a multiple of 4:
\* 6 bytes from 0x80000200 to 0x80000300
OddCountImages ==
    {MailboxImage(<<EncOp(OP_SYNC)>>, U32(32768, 512), U32(32768, 768), 6)}

\* sync ; rfi, with a parameter block: a command handled in the first poll
\* completes while the interrupts are still disarmed, the rfi arms them
DiscardImages ==
    {MailboxImage(<<EncOp(OP_SYNC), EncOp(OP_RFI)>>, U32(32768, 512), U32(32768, 768), 4)}

Images ==
    AddImages \cup BranchImages \cup CondImages \cup MailboxImages \cup MiscImages
        \cup WindowStoreImages \cup StubImages \cup BaseStoreImages \cup ZeroBaseImages
        \cup LinkImages \cup OddCountImages \cup DiscardImages

IssuedCommands == {CMD_INIT, CMD_RESET, CMD_READ, CMD_WRITE, CMD_AUDIO, 9}
ParamAddrs == {P1, P2}

----------------------------------------------------------------------------
(* src/emuwiiv1.cpp : main(), one action per statement of the boot         *)
(* sequence and of the emulation loop                                      *)

\* trace.steps counts the completed calls of execute_instruction; trace.seen
\* is the mailbox as it was at each trigger_interrupt call of the last poll;
\* trace.last is the word executed by the latest step while no command has
\* been handled since; trace.saved is the link register as it was when the
\* latest interrupt was entered, until a return from interrupt is executed
Log(op, triggers, arg) == [op |-> op, triggers |-> triggers, issued |-> trace.issued,
                           arg |-> arg, steps |-> trace.steps, seen |-> <<>>,
                           last |-> trace.last, saved |-> trace.saved]

NoUnit == <<mem1, mem2, io>>

\* kernel stubs: write_word(entry.second, 0x4C000064) for every vector, in key order
RECURSIVE WriteStubs(_, _, _, _)
WriteStubs(mem, fb, vecs, t) ==
    IF t \notin DOMAIN vecs THEN <<mem, fb>>
    ELSE LET w == write_word(mem, fb, vecs[t], RFI_STUB)
         IN After(w, WriteStubs(w[1], w[2], vecs, t + 1))

Init ==
    /\ phase = "init"
    /\ state = CPUState
    /\ memory = EmptyMap
    /\ framebuffer = EmptyMap
    /\ starlet_memory = StarletMemory
    /\ interrupt_vectors = EmptyMap
    /\ audio_state = [initialized |-> FALSE, buffer |-> EmptyMap]
    /\ trace = [op |-> "init", triggers |-> <<>>, issued |-> 0, arg |-> <<>>, steps |-> 0,
                 seen |-> <<>>, last |-> <<>>, saved |-> <<>>]
    /\ mem1 = EmptyMap
    /\ mem2 = EmptyMap
    /\ io = <<>>

\* initialize_wii_subsystems: initialize_kernel, then graphics, audio, input
InitializeSubsystems ==
    /\ phase = "init"
    /\ LET w == WriteStubs(memory, framebuffer, KernelVectors, 0)
       IN /\ memory' = w[1]
          /\ framebuffer' = EmptyMap
    /\ interrupt_vectors' = KernelVectors
    /\ audio_state' = AudioState
    /\ phase' = "load"
    /\ trace' = Log("initialize_wii_subsystems", <<>>, <<>>)
    /\ UNCHANGED <<state, starlet_memory, NoUnit>>

\* CPUState state; state.pc = KERNEL_BASE_ADDR; load_game succeeds
LoadGame ==
    /\ phase = "load"
    /\ \E img \in Images : memory' = img
    /\ state' = [CPUState EXCEPT !.pc = KERNEL_BASE_ADDR]
    /\ phase' = "fetch"
    /\ trace' = Log("load_game", <<>>, <<>>)
    /\ UNCHANGED <<framebuffer, starlet_memory, interrupt_vectors, audio_state, NoUnit>>

\* load_game cannot open the file: close_sdl() and return 1
LoadGameFails ==
    /\ phase = "load"
    /\ phase' = "exit"
    /\ interrupt_vectors' = EmptyMap
    /\ audio_state' = [initialized |-> FALSE, buffer |-> EmptyMap]
    /\ trace' = Log("load_game_failed", <<>>, <<>>)
    /\ UNCHANGED <<state, memory, framebuffer, starlet_memory, NoUnit>>

\* process_sdl_input sees SDL_QUIT: exit(0)
QuitEvent ==
    /\ phase = "fetch"
    /\ state.running
    /\ phase' = "exit"
    /\ trace' = Log("quit", <<>>, <<>>)
    /\ UNCHANGED <<state, memory, framebuffer, starlet_memory, interrupt_vectors,
                   audio_state, NoUnit>>

\* the host side of the mailbox: a request is placed while none is outstanding
IssueCommand ==
    /\ phase = "fetch"
    /\ state.running
    /\ starlet_memory.command = Zero32
    /\ trace.issued < MaxIssue
    /\ \E c \in IssuedCommands, pa \in ParamAddrs :
          starlet_memory' = [starlet_memory EXCEPT !.command = U32(0, c),
                                                   !.param_addr = pa,
                                                   !.status = Zero32]
    /\ trace' = [op |-> "issue", triggers |-> <<>>, issued |-> trace.issued + 1,
                 arg |-> <<>>, steps |-> trace.steps, seen |-> <<>>, last |-> trace.last,
                 saved |-> trace.saved]
    /\ UNCHANGED <<phase, state, memory, framebuffer, interrupt_vectors, audio_state,
                   NoUnit>>

\* while (state.running): fetch_instruction, execute_instruction
Execute ==
    /\ phase = "fetch"
    /\ state.running
    /\ state.cycle_count < MaxSteps
    /\ \E instruction \in {fetch_instruction(state, memory)} :
       \E r \in {execute_instruction(instruction, state, memory, framebuffer,
                                     interrupt_vectors)} :
          /\ state' = r.state
          /\ memory' = r.memory
          /\ framebuffer' = r.framebuffer
          /\ trace' = [Log("execute", r.triggers, instruction)
                          EXCEPT !.steps = trace.steps + 1, !.last = instruction,
                                 !.saved = IF r.triggers # <<>> /\ state.interrupts_enabled
                                           THEN state.spr[LR]
                                           ELSE IF Opcode(instruction) = OP_RFI THEN <<>>
                                           ELSE trace.saved]
    /\ phase' = "poll"
    /\ UNCHANGED <<starlet_memory, interrupt_vectors, audio_state, NoUnit>>

\* handle_starlet_command(state), then the render tick (no modelled state)
Poll ==
    /\ phase = "poll"
    /\ \E r \in {handle_starlet_command(state, memory, framebuffer, starlet_memory,
                                        audio_state, interrupt_vectors)} :
          /\ state' = r.state
          /\ memory' = r.memory
          /\ framebuffer' = r.framebuffer
          /\ starlet_memory' = r.starlet_memory
          /\ audio_state' = r.audio_state
          /\ trace' = [Log("poll", r.triggers, starlet_memory.command)
                          EXCEPT !.seen = r.seen,
                                 !.last = IF r.handled THEN <<>> ELSE trace.last,
                                 !.saved = IF r.triggers # <<>> /\ state.interrupts_enabled
                                           THEN state.spr[LR] ELSE trace.saved]
    /\ phase' = "fetch"
    /\ UNCHANGED <<interrupt_vectors, NoUnit>>

Next ==
    \/ InitializeSubsystems
    \/ LoadGame
    \/ LoadGameFails
    \/ QuitEvent
    \/ IssueCommand
    \/ Execute
    \/ Poll

Spec == Init /\ [][Next]_vars

----------------------------------------------------------------------------
(* Properties of the executor and the mailbox (src/emuwiiv1.cpp)           *)

\* the transition is the fetch/execute statement pair of the loop body
ExecuteStep == phase = "fetch" /\ phase' = "poll"

\* the transition is the handle_starlet_command statement of the loop body
PollStep == phase = "poll" /\ phase' = "fetch"

Fetched == fetch_instruction(state, memory)

LinkBit(instruction) == instruction[2] % 2 = 1

AbsoluteBit(instruction) == (instruction[2] \div 2) % 2 = 1

\* C1: a step that fetches ADD(rd=k, ra=i, rb=j) with an idle mailbox sets
\* GPR[k] = (GPR[i] + GPR[j]) mod 2^32, pc = pc + 4 and cycle_count =
\* cycle_count + 1; the idle poll that ends the step changes nothing.
C1_AddStep ==
    [][/\ (ExecuteStep /\ Opcode(Fetched) = OP_ADD /\ starlet_memory.command = Zero32) =>
            /\ state'.gpr[Field11(Fetched)] =
                  Add32(state.gpr[Field21(Fetched)], state.gpr[Field16(Fetched)])
            /\ state'.pc = AddInt(state.pc, 4)
            /\ state'.cycle_count = state.cycle_count + 1
       /\ (PollStep /\ trace.op = "execute" /\ Opcode(trace.arg) = OP_ADD
              /\ starlet_memory.command = Zero32) =>
            UNCHANGED <<state, memory, framebuffer, starlet_memory>>]_vars

\* an ADD r_k = r_i + r_j with k distinct from i and j has wrapped 0xFFFFFFFF + 1 to 0
C1_Witness ==
    /\ phase = "fetch"
    /\ trace.op = "poll"
    /\ state.cycle_count = 3
    /\ state.pc = AddInt(KERNEL_BASE_ADDR, 12)
    /\ LET i == read_word(memory, AddInt(KERNEL_BASE_ADDR, 8))
       IN /\ Opcode(i) = OP_ADD
          /\ Field11(i) \notin {Field21(i), Field16(i)}
          /\ state.gpr[Field21(i)] = U32(65535, 65535)
          /\ state.gpr[Field16(i)] = U32(0, 1)
          /\ state.gpr[Field11(i)] = Zero32

\* C2: an unconditional branch with link and absolute bits clear and
\* displacement d (26-bit signed, word-aligned, sign-extended) sets
\* pc = (pc + d) mod 2^32, negative displacements included.
C2_BranchRelative ==
    [][(ExecuteStep /\ Opcode(Fetched) = OP_B /\ ~LinkBit(Fetched)
            /\ ~AbsoluteBit(Fetched)) =>
          state'.pc = Add32(state.pc, SignExtend26(Fetched))]_vars

\* C3: an unconditional branch with the link bit set leaves pc + 4 (pc before
\* the instruction) in the link-register slot, relative or absolute, for
\* every displacement.
C3_BranchLink ==
    [][(ExecuteStep /\ Opcode(Fetched) = OP_B /\ LinkBit(Fetched)) =>
          state'.spr[LR] = AddInt(state.pc, 4)]_vars

\* a backward absolute branch-with-link at the entry point has been executed
C3_Witness ==
    /\ trace.op = "execute"
    /\ Opcode(trace.arg) = OP_B
    /\ LinkBit(trace.arg) /\ AbsoluteBit(trace.arg)
    /\ trace.arg[1] % 1024 >= 512
    /\ state.cycle_count = 1
    /\ state.spr[LR] = AddInt(KERNEL_BASE_ADDR, 4)

\* the options field selects "taken if the condition bit is true"
BranchIfTrue(instruction) ==
    BitAnd(Field21(instruction), 4) = 0 /\ BitAnd(Field21(instruction), 8) # 0

SelectedBit(st, instruction) == Bit32(st.spr[CR], 31 - Field16(instruction))

\* C4 as stated: under branch-if-true, pc after equals pc + offset if and
\* only if the selected condition bit is 1, and pc + 4 otherwise.
C4_CondBranchIff ==
    [][(ExecuteStep /\ Opcode(Fetched) = OP_BC /\ BranchIfTrue(Fetched)) =>
          /\ (state'.pc = AddInt(state.pc, CondOffset(Fetched)))
                <=> (SelectedBit(state, Fetched) = 1)
          /\ SelectedBit(state, Fetched) # 1 => state'.pc = AddInt(state.pc, 4)]_vars

\* C4 amended: under branch-if-true, pc after equals pc + offset if the
\* selected condition bit is 1 and pc + 4 if it is 0 (the two targets
\* coincide for offset = 4).
C4_CondBranch ==
    [][(ExecuteStep /\ Opcode(Fetched) = OP_BC /\ BranchIfTrue(Fetched)) =>
          state'.pc = IF SelectedBit(state, Fetched) = 1
                      THEN AddInt(state.pc, CondOffset(Fetched))
                      ELSE AddInt(state.pc, 4)]_vars

\* a branch-if-true on a set condition bit has been taken backwards
C4_Witness ==
    /\ trace.op = "execute"
    /\ Opcode(trace.arg) = OP_BC
    /\ BranchIfTrue(trace.arg)
    /\ SelectedBit(state, trace.arg) = 1
    /\ CondOffset(trace.arg) = -8
    /\ state.pc = KERNEL_BASE_ADDR

\* the word offsets 0, 4, ... visited by the copy loop for a count below 2^16
CopyWords(size) == {4 * k : k \in 0..((size[2] \div 4) - 1)}

\* the physical bytes of the words at addr + 0, addr + 4, ...
PhysBytes(addr, size) ==
    {AddInt(translate_address(AddInt(addr, i)), b) : <<i, b>> \in CopyWords(size) \X (0..3)}

NonFaulting(addr, size) ==
    \A i \in CopyWords(size) : ~OutOfBounds(translate_address(AddInt(addr, i)))

\* the parameter block the pending command points at
CopySrc == read_word(memory, starlet_memory.param_addr)
CopyDest == read_word(memory, AddInt(starlet_memory.param_addr, 4))
CopyCount == read_word(memory, AddInt(starlet_memory.param_addr, 8))

BlockCopyPending ==
    /\ starlet_memory.command \in {U32(0, CMD_READ), U32(0, CMD_WRITE)}
    /\ CopyCount[1] = 0 /\ CopyCount[2] % 4 = 0
    /\ NonFaulting(CopySrc, CopyCount) /\ NonFaulting(CopyDest, CopyCount)
    /\ PhysBytes(CopySrc, CopyCount) \cap PhysBytes(CopyDest, CopyCount) = {}

\* C9: a READ (3) or WRITE (4) command whose parameter block holds (source,
\* destination, count), count a multiple of 4 and the two ranges non-faulting
\* and non-overlapping, copies exactly count bytes from source to destination
\* (no other byte of memory changes), sets response = 0, resets command to 0
\* and raises exactly one coprocessor interrupt.
C9_BlockCopy ==
    [][(PollStep /\ BlockCopyPending) =>
          /\ \A <<i, b>> \in CopyWords(CopyCount) \X (0..3) :
                MemByte(memory', AddInt(translate_address(AddInt(CopyDest, i)), b))
                  = MemByte(memory, AddInt(translate_address(AddInt(CopySrc, i)), b))
          /\ \A p \in (DOMAIN memory \cup DOMAIN memory') \ PhysBytes(CopyDest, CopyCount) :
                MemByte(memory', p) = MemByte(memory, p)
          /\ starlet_memory'.response = RESP_OK
          /\ starlet_memory'.command = Zero32
          /\ trace'.triggers = <<STARLET_IRQ>>]_vars

\* a READ with count = 16 has moved the first four of five source words to
\* 0x80000300 and left the fifth destination word untouched
C9_Witness ==
    /\ phase = "fetch"
    /\ trace.op = "poll"
    /\ trace.arg = U32(0, CMD_READ)
    /\ trace.triggers = <<STARLET_IRQ>>
    /\ starlet_memory.param_addr = P1
    /\ starlet_memory.response = RESP_OK
    /\ read_word(memory, AddInt(P1, 4)) = U32(32768, 768)
    /\ read_word(memory, AddInt(P1, 8)) = U32(0, 16)
    /\ \A k \in 0..3 : read_word(memory, U32(32768, 768 + 4 * k)) = SourceData[k + 1]
    /\ read_word(memory, U32(32768, 784)) = Zero32

----------------------------------------------------------------------------
(* Properties of the step counter, the program counter, the mailbox        *)
(* lifecycle and the boot sequence (src/emuwiiv1.cpp)                      *)

\* C11: cycle_count increases by exactly 1 on every call of
\* execute_instruction, whatever the opcode and the outcome, and by nothing
\* else, so that it equals the number of steps taken since boot.
C11_CycleCount ==
    [][/\ ExecuteStep => state'.cycle_count = state.cycle_count + 1
       /\ ~ExecuteStep => state'.cycle_count = state.cycle_count
       /\ state'.cycle_count = trace'.steps]_vars

\* three steps have been counted: a branch with link, a return from interrupt
\* that armed interrupts, and a system call that entered its handler
C11_Witness ==
    /\ trace.op = "execute"
    /\ Opcode(trace.arg) = OP_SC
    /\ trace.triggers = <<SYSCALL_IRQ>>
    /\ state.pc = KernelVectors[SYSCALL_IRQ]
    /\ trace.steps = 3
    /\ state.cycle_count = 3

\* the dispatched operation assigns pc itself: the branch family, the return
\* from interrupt, and a system call whose trigger enters the handler
SetsPc(instruction, st) ==
    \/ Opcode(instruction) \in {OP_B, OP_BC, OP_RFI}
    \/ Opcode(instruction) = OP_SC /\ st.interrupts_enabled

\* C12: in every step whose dispatched operation did not itself set pc (every
\* non-branch operation, an unknown opcode under the skip policy, a system
\* call whose trigger is a no-op because interrupts are disarmed),
\* execute_instruction advances pc by exactly 4.
C12_PcAdvance ==
    [][(ExecuteStep /\ ~SetsPc(Fetched, state)) => state'.pc = AddInt(state.pc, 4)]_vars

\* the transition contains one call of handle_starlet_command: the poll
\* statement of the emuwiiv1.cpp loop, or one iteration of the wiiemu.cpp loop
MailboxPolled ==
    \/ PollStep
    \/ phase = "wiiemu_loop" /\ trace'.op = "step"

\* C13: a poll that finds command = 0 changes no state; a poll that finds
\* any non-zero command ends with the response written (0 for the recognized
\* requests, 0 or 1 for the audio update, 0xFF for an unrecognized code),
\* status = completed and command = 0.  Hence command = 0 at the end of
\* every step.
C13_MailboxLifecycle ==
    [][/\ (MailboxPolled /\ starlet_memory.command = Zero32) =>
            starlet_memory' = starlet_memory
       /\ (PollStep /\ starlet_memory.command = Zero32) =>
            /\ UNCHANGED <<state, memory, framebuffer, audio_state, interrupt_vectors>>
            /\ trace'.triggers = <<>>
       /\ MailboxPolled => starlet_memory'.command = Zero32
       /\ (PollStep /\ starlet_memory.command # Zero32) =>
            /\ starlet_memory'.status = STATUS_DONE
            /\ starlet_memory'.param_addr = starlet_memory.param_addr
            /\ starlet_memory'.response =
                  IF starlet_memory.command[2] \in {CMD_INIT, CMD_RESET, CMD_READ, CMD_WRITE}
                  THEN RESP_OK
                  ELSE IF starlet_memory.command[2] = CMD_AUDIO
                  THEN (IF audio_state.initialized
                           /\ Le32(read_word(memory, AddInt(starlet_memory.param_addr, 4)),
                                   FromInt(AUDIO_BUFFER_SIZE))
                        THEN RESP_OK ELSE RESP_FAIL)
                  ELSE RESP_ERROR
       /\ (phase = "wiiemu_loop" /\ trace'.op = "step"
              /\ starlet_memory.command # Zero32) =>
            starlet_memory'.response =
                  IF starlet_memory.command = U32(0, 1) THEN Zero32 ELSE U32(0, 255)]_vars

\* the poll has answered the unrecognized code 9 with 0xFF and emptied the slot
C13_Witness ==
    /\ phase = "fetch"
    /\ trace.op = "poll"
    /\ trace.arg = U32(0, 9)
    /\ starlet_memory.command = Zero32
    /\ starlet_memory.response = RESP_ERROR
    /\ starlet_memory.status = STATUS_DONE

\* C14: a poll that finds a non-zero command, whatever the code, calls
\* trigger_interrupt exactly once, with the coprocessor interrupt type, and the
\* mailbox at that call already holds the response, status = completed and
\* command = 0; a poll that finds command = 0 calls no trigger.
C14_TriggerOnce ==
    [][PollStep =>
          IF starlet_memory.command = Zero32
          THEN trace'.triggers = <<>> /\ trace'.seen = <<>> /\ state' = state
          ELSE /\ trace'.triggers = <<STARLET_IRQ>>
               /\ trace'.seen = <<starlet_memory'>>
               /\ trace'.seen[1].command = Zero32
               /\ trace'.seen[1].status = STATUS_DONE
               /\ state' = IF state.interrupts_enabled
                           THEN [state EXCEPT !.spr[LR] = state.pc,
                                              !.pc = interrupt_vectors[STARLET_IRQ],
                                              !.interrupts_enabled = FALSE,
                                              !.kernel_mode = TRUE]
                           ELSE state]_vars

\* the poll of an audio update that failed has entered the coprocessor
\* interrupt handler once, from pc 0 with interrupts armed
C14_Witness ==
    /\ phase = "fetch"
    /\ trace.op = "poll"
    /\ trace.arg = U32(0, CMD_AUDIO)
    /\ trace.triggers = <<STARLET_IRQ>>
    /\ trace.seen = <<starlet_memory>>
    /\ starlet_memory.response = RESP_FAIL
    /\ state.pc = KernelVectors[STARLET_IRQ]
    /\ state.spr[LR] = Zero32
    /\ ~state.interrupts_enabled

\* C18: a step that fetches RFI sets pc to the value of the link register
\* slot (spr[8]) and interrupts_enabled to TRUE, and leaves kernel_mode,
\* every general purpose register and every special purpose register (the
\* link register included) as they were; memory and the framebuffer are
\* not touched.
C18_RfiStep ==
    [][(ExecuteStep /\ Opcode(Fetched) = OP_RFI) =>
          /\ state'.pc = state.spr[LR]
          /\ state'.interrupts_enabled
          /\ state'.kernel_mode = state.kernel_mode
          /\ state'.gpr = state.gpr
          /\ state'.spr = state.spr
          /\ state'.running = state.running
          /\ UNCHANGED <<memory, framebuffer>>]_vars

\* the RFI at offset 8, entered by an absolute bl from 0x80000000 with
\* interrupts disarmed, has returned to 0x80000004 and armed them
C18_Witness ==
    /\ phase = "poll"
    /\ trace.op = "execute"
    /\ trace.arg = EncOp(OP_RFI)
    /\ trace.steps = 2
    /\ state.pc = U32(32768, 4)
    /\ state.spr[LR] = U32(32768, 4)
    /\ state.interrupts_enabled
    /\ state.kernel_mode

\* every vector slot INTERRUPT_TABLE_BASE + 0x10*k, k = 0..11, reads as the stub
StubsInstalled(mem) ==
    \A k \in 0..11 : read_word(mem, AddInt(INTERRUPT_TABLE_BASE, 16 * k)) = RFI_STUB

\* initialize_kernel has installed the stubs when load_game is called
StubsBeforeLoad == phase = "load" => StubsInstalled(memory)

\* C19: when the first instruction step executes, each of the twelve vector
\* slots INTERRUPT_TABLE_BASE + 0x10*k, k = 0..11, holds the stub word
\* 0x4C000064 written by initialize_kernel.
C19_StubsAtFirstStep ==
    [][(ExecuteStep /\ trace.steps = 0) => StubsInstalled(memory)]_vars

\* the address the fetched LWZ or STW hands to read_word / write_word
AccessAddr == EffectiveAddr(state, Field16(Fetched), Imm16(Fetched))

\* the fetched word is a STW of a non-zero register into one of the first
\* five words of the coprocessor-memory window (0xCD000000 .. 0xCD000010)
WindowStore ==
    /\ Opcode(Fetched) = OP_STW
    /\ state.gpr[Field21(Fetched)] # Zero32
    /\ AccessAddr \in {AddInt(STARLET_MEM_START, off) : off \in StarletFields}

\* no step of the executor changes the mailbox
CpuNeverIssues == [][ExecuteStep => starlet_memory' = starlet_memory]_vars

\* the window store is in memory at offset 0x01100000 .. 0x01100010
WindowStoreLands ==
    [][(ExecuteStep /\ WindowStore) =>
          read_word(memory', AccessAddr) = state.gpr[Field21(Fetched)]]_vars

\* C23: the mailbox is in the coprocessor-memory window: a step whose STW
\* stores a non-zero word at the start of the window, where the mailbox
\* fields would lie, with no request outstanding, leaves command non-zero
\* for the poll of that step.
C23_CpuIssuesCommand ==
    [][(ExecuteStep /\ WindowStore /\ starlet_memory.command = Zero32) =>
          starlet_memory'.command # Zero32]_vars

\* the 10-bit extended-opcode subfield, bits 1..10 of the word
ExtField10(instruction) == (instruction[2] \div 2) % 1024

\* C25: a step that fetches a word of the extended group (primary opcode
\* 0x1F) whose 10-bit extended-opcode subfield is 0x10A sets
\* GPR[rd] = (GPR[ra] - GPR[rb]) mod 2^32, leaves every other register and
\* the condition register unchanged and advances pc by 4.
C25_Subtract ==
    [][(ExecuteStep /\ Opcode(Fetched) = OP_EXT /\ ExtField10(Fetched) = 266) =>
          /\ state'.gpr = [state.gpr EXCEPT ![Field11(Fetched)] =
                              Sub32(state.gpr[Field21(Fetched)], state.gpr[Field16(Fetched)])]
          /\ state'.spr = state.spr
          /\ state'.pc = AddInt(state.pc, 4)]_vars

\* what the step does instead: the subfield is held in a uint8_t, 0x10A is
\* seen as 0x0A, and the word is executed as the compare of the same two
\* registers
SubtractRunsAsCompare ==
    [][(ExecuteStep /\ Opcode(Fetched) = OP_EXT /\ ExtField10(Fetched) = 266) =>
          /\ state'.gpr = state.gpr
          /\ state'.spr[CR] =
                SetCrField(state.spr[CR], CrField(Fetched),
                           IF SLt32(state.gpr[Field21(Fetched)], state.gpr[Field16(Fetched)])
                           THEN 8
                           ELSE IF SLt32(state.gpr[Field16(Fetched)],
                                         state.gpr[Field21(Fetched)])
                           THEN 4 ELSE 2)
          /\ state'.pc = AddInt(state.pc, 4)]_vars

\* the high half of a word as the high half of an int32_t
SignedHi(a) == IF a[1] >= 32768 THEN a[1] - H ELSE a[1]

\* a < b for the two words read as signed 32-bit integers
SignedLess(a, b) ==
    SignedHi(a) < SignedHi(b) \/ (SignedHi(a) = SignedHi(b) /\ a[2] < b[2])

\* 4-bit field k of a word, field 0 being bits 28..31 and field 7 bits 0..3
CrNibble(cr, k) ==
    IF k < 4 THEN (cr[1] \div Pow2(4 * (3 - k))) % 16
    ELSE (cr[2] \div Pow2(4 * (7 - k))) % 16

\* C26: a step that fetches the compare instruction (primary opcode 0x1F,
\* extended opcode 0x00A) with a = GPR[ra], b = GPR[rb] read as signed
\* 32-bit integers writes into field crfd of the condition register
\* exactly the nibble 8 if a < b, 4 if a > b, 2 if a = b, and leaves the
\* other seven fields, the link register and every GPR unchanged.
C26_Compare ==
    [][(ExecuteStep /\ Opcode(Fetched) = OP_EXT /\ ExtField10(Fetched) = 10) =>
          /\ CrNibble(state'.spr[CR], CrField(Fetched)) =
                (IF SignedLess(state.gpr[Field21(Fetched)], state.gpr[Field16(Fetched)])
                 THEN 8
                 ELSE IF SignedLess(state.gpr[Field16(Fetched)], state.gpr[Field21(Fetched)])
                 THEN 4 ELSE 2)
          /\ \A k \in 0..7 \ {CrField(Fetched)} :
                CrNibble(state'.spr[CR], k) = CrNibble(state.spr[CR], k)
          /\ state'.spr[LR] = state.spr[LR]
          /\ state'.gpr = state.gpr]_vars

\* cmp r4,r2 with r4 = 0xFFFFFFFF and r2 = 1 wrote 8 (less) into field 1,
\* then cmp r2,r4 wrote 4 (greater) into field 0 and left field 1 as it was
C26_Witness ==
    /\ phase = "poll"
    /\ trace.op = "execute"
    /\ trace.arg = EncCmp(2, 4)
    /\ trace.steps = 4
    /\ state.gpr[4] = U32(65535, 65535)
    /\ state.gpr[2] = U32(0, 1)
    /\ state.spr[CR] = U32(18432, 0)

\* the addresses of the twelve vector slots
VectorSlots == {KernelVectors[t] : t \in DOMAIN KernelVectors}

\* C27: a step with pc at a vector slot that holds the stub word 0x4C000064
\* is a return from interrupt: it sets pc to the link register and arms the
\* interrupts.
C27_StubReturns ==
    [][(ExecuteStep /\ state.pc \in VectorSlots /\ Fetched = RFI_STUB) =>
          /\ state'.pc = state.spr[LR]
          /\ state'.interrupts_enabled]_vars

\* what the step does instead: the primary opcode of the stub word is 0x13,
\* the system call; entered with interrupts disarmed it changes nothing but
\* the step counter
StubRunsAsSystemCall ==
    [][(ExecuteStep /\ state.pc \in VectorSlots /\ Fetched = RFI_STUB) =>
          /\ Opcode(Fetched) = OP_SC
          /\ trace'.triggers = <<SYSCALL_IRQ>>
          /\ state' = [trigger_interrupt(SYSCALL_IRQ, state, interrupt_vectors)
                          EXCEPT !.cycle_count = state.cycle_count + 1]]_vars

\* a branch from 0x80000000 reached the slot 0x80003090 with interrupts
\* disarmed and a zero link register; the stub word left pc on the slot
StubAfterBranch ==
    /\ phase = "poll"
    /\ trace.steps = 2
    /\ trace.arg = RFI_STUB
    /\ state.pc = KernelVectors[SYSCALL_IRQ]
    /\ state.spr[LR] = Zero32

\* the system call at 0x80000004 entered its vector 0x80003090, and the
\* stub word there was executed without leaving the slot
StubStuck ==
    /\ phase = "poll"
    /\ trace.steps = 4
    /\ trace.arg = RFI_STUB
    /\ state.pc = KernelVectors[SYSCALL_IRQ]
    /\ state.spr[LR] = U32(32768, 4)
    /\ ~state.interrupts_enabled

----------------------------------------------------------------------------
(* src/emuwiiv0.cpp : class Memory (MEM1, MEM2 and three I/O registers)    *)

MEM1_SIZE == U32(384, 0)                                 \* 24 * 1024 * 1024
MEM2_SIZE == U32(1024, 0)                                \* 64 * 1024 * 1024
REG_VIDEO_BG_COLOR == U32(3328, 0)                       \* 0x0D000000
REG_INPUT_STATE == U32(3328, 4)                          \* 0x0D000004
REG_AUDIO_FREQ == U32(3328, 8)                           \* 0x0D000008

\* Memory::Memory(): zeroed MEM1 and MEM2, registers 0, no device connected
MemoryRegs == [videoBgColor |-> Zero32, audioFreqValue |-> Zero32]

InWindow(address, base, size) ==
    Le32(base, address) /\ Lt32(address, Add32(base, size))

InMem1(address) ==
    InWindow(address, U32(32768, 0), MEM1_SIZE) \/ InWindow(address, U32(49152, 0), MEM1_SIZE)

InMem2(address) ==
    InWindow(address, U32(36864, 0), MEM2_SIZE) \/ InWindow(address, U32(53248, 0), MEM2_SIZE)

\* uint32_t offset = address & (MEMn_SIZE - 1)
Mem1Offset(address) == And32(address, AddInt(MEM1_SIZE, -1))
Mem2Offset(address) == And32(address, AddInt(MEM2_SIZE, -1))

\* if (offset + 3 < MEMn_SIZE)
InRange(offset, size) == Lt32(AddInt(offset, 3), size)

Word(mem, offset) ==
    U32(MemByte(mem, offset) * 256 + MemByte(mem, AddInt(offset, 1)),
        MemByte(mem, AddInt(offset, 2)) * 256 + MemByte(mem, AddInt(offset, 3)))

\* Memory::read32 with no input device connected (input == nullptr)
read32(m1, m2, regs, address) ==
    IF InMem1(address)
    THEN (IF InRange(Mem1Offset(address), MEM1_SIZE) THEN Word(m1, Mem1Offset(address))
          ELSE Zero32)
    ELSE IF InMem2(address)
    THEN (IF InRange(Mem2Offset(address), MEM2_SIZE) THEN Word(m2, Mem2Offset(address))
          ELSE Zero32)
    ELSE IF address = REG_VIDEO_BG_COLOR THEN regs.videoBgColor
    ELSE IF address = REG_INPUT_STATE THEN Zero32
    ELSE IF address = REG_AUDIO_FREQ THEN regs.audioFreqValue
    ELSE Zero32

\* a write to the input state register lands in the background colour
write32_inputStored(m1, m2, regs, address, value) ==
    IF InMem1(address)
    THEN (IF InRange(Mem1Offset(address), MEM1_SIZE)
          THEN <<StoreBytes(m1, Mem1Offset(address), value), m2, regs>>
          ELSE <<m1, m2, regs>>)
    ELSE IF InMem2(address)
    THEN (IF InRange(Mem2Offset(address), MEM2_SIZE)
          THEN <<m1, StoreBytes(m2, Mem2Offset(address), value), regs>>
          ELSE <<m1, m2, regs>>)
    ELSE IF address \in {REG_VIDEO_BG_COLOR, REG_INPUT_STATE}
    THEN <<m1, m2, [regs EXCEPT !.videoBgColor = value]>>
    ELSE IF address = REG_AUDIO_FREQ THEN <<m1, m2, [regs EXCEPT !.audioFreqValue = value]>>
    ELSE <<m1, m2, regs>>

\* Memory::write32: the triple <<mem1, mem2, registers>> after the call
write32(m1, m2, regs, address, value) ==
    IF InMem1(address)
    THEN (IF InRange(Mem1Offset(address), MEM1_SIZE)
          THEN <<StoreBytes(m1, Mem1Offset(address), value), m2, regs>>
          ELSE <<m1, m2, regs>>)
    ELSE IF InMem2(address)
    THEN (IF InRange(Mem2Offset(address), MEM2_SIZE)
          THEN <<m1, StoreBytes(m2, Mem2Offset(address), value), regs>>
          ELSE <<m1, m2, regs>>)
    ELSE IF address = REG_VIDEO_BG_COLOR THEN <<m1, m2, [regs EXCEPT !.videoBgColor = value]>>
    ELSE IF address = REG_AUDIO_FREQ THEN <<m1, m2, [regs EXCEPT !.audioFreqValue = value]>>
    ELSE <<m1, m2, regs>>

----------------------------------------------------------------------------
(* The Memory Unit on its own: word writes through either draft            *)

MaxWrites == 2

\* 0xDEADBEEF, 0, 0x4C000064
WordValues == {U32(57005, 48879), Zero32, RFI_STUB}

\* 0x80000000, 0x80000002, 0xC0000000, 0x00000000, 0x80800000, 0xCC000000,
\* 0x81000000, 0x90000000, 0x857FFFFC, 0x857FFFFD, 0xC57FFFFD
WordAddrs ==
    {U32(32768, 0), U32(32768, 2), U32(49152, 0), Zero32, U32(32896, 0), U32(52224, 0),
     U32(33024, 0), U32(36864, 0), U32(34175, 65532), U32(34175, 65533),
     U32(50559, 65533)}

\* 0x80000000, 0x80000002, 0xC0000000, 0x80800000, 0x817FFFFC, 0x817FFFFD,
\* 0xC17FFFFD, 0x90000000, 0xD0000000, 0x0D000000, 0x0D000004, 0x0D000008, 0
Word32Addrs ==
    {U32(32768, 0), U32(32768, 2), U32(49152, 0), U32(32896, 0), U32(33151, 65532),
     U32(33151, 65533), U32(49535, 65533), U32(36864, 0), U32(53248, 0),
     REG_VIDEO_BG_COLOR, REG_INPUT_STATE, REG_AUDIO_FREQ, Zero32}

\* offsets inside the main-RAM window of both drafts: 0, 2, 4, 0x00800000,
\* 0x01000000, 0x017FFFFC, 0x017FFFFD
RamOffsets ==
    {Zero32, U32(0, 2), U32(0, 4), U32(128, 0), U32(256, 0), U32(383, 65532),
     U32(383, 65533)}

NoMachine == <<state, starlet_memory, interrupt_vectors, audio_state>>

InitMem ==
    /\ phase = "memory"
    /\ state = CPUState
    /\ memory = EmptyMap
    /\ framebuffer = EmptyMap
    /\ starlet_memory = StarletMemory
    /\ interrupt_vectors = EmptyMap
    /\ audio_state = [initialized |-> FALSE, buffer |-> EmptyMap]
    /\ mem1 = EmptyMap
    /\ mem2 = EmptyMap
    /\ io = MemoryRegs
    /\ trace = [op |-> "init", addr |-> Zero32, value |-> Zero32, n |-> 0]

\* write_word(a, v) of src/emuwiiv1.cpp
WriteWord ==
    /\ trace.n < MaxWrites
    /\ \E a \in WordAddrs, v \in WordValues :
          /\ LET w == write_word(memory, framebuffer, a, v)
             IN memory' = w[1] /\ framebuffer' = w[2]
          /\ trace' = [op |-> "write_word", addr |-> a, value |-> v, n |-> trace.n + 1]
    /\ UNCHANGED <<phase, NoMachine, NoUnit>>

\* Memory::write32(a, v) of src/emuwiiv0.cpp
Write32 ==
    /\ trace.n < MaxWrites
    /\ \E a \in Word32Addrs, v \in WordValues :
          /\ LET w == write32(mem1, mem2, io, a, v)
             IN mem1' = w[1] /\ mem2' = w[2] /\ io' = w[3]
          /\ trace' = [op |-> "write32", addr |-> a, value |-> v, n |-> trace.n + 1]
    /\ UNCHANGED <<phase, NoMachine, memory, framebuffer>>

NextMem ==
    \/ WriteWord
    \/ Write32

SpecMem == InitMem /\ [][NextMem]_vars

\* the translated offset of a does not fault (src/emuwiiv1.cpp)
Lands(a) == ~OutOfBounds(translate_address(a))

\* a is a MEM1 or MEM2 address whose offset does not fault (src/emuwiiv0.cpp)
Lands32(a) ==
    \/ InMem1(a) /\ InRange(Mem1Offset(a), MEM1_SIZE)
    \/ InMem2(a) /\ InRange(Mem2Offset(a), MEM2_SIZE)

\* region and offset a MEM1 or MEM2 address translates to
Offset32(a) ==
    IF InMem1(a) THEN <<1, Mem1Offset(a)>>
    ELSE IF InMem2(a) THEN <<2, Mem2Offset(a)>>
    ELSE <<0, a>>

\* C5: for every address a whose translated offset does not fault and every
\* 32-bit value v, write_word(a, v) immediately followed by read_word(a)
\* returns v (both drafts of the Memory Unit).
C5_RoundTrip ==
    /\ (trace.op = "write_word" /\ Lands(trace.addr)) =>
          read_word(memory, trace.addr) = trace.value
    /\ (trace.op = "write32" /\ Lands32(trace.addr)) =>
          read32(mem1, mem2, io, trace.addr) = trace.value

\* 0xDEADBEEF written to the last word of the buffer, over an earlier write
C5_Witness ==
    /\ trace.op = "write_word"
    /\ trace.n = 2
    /\ trace.addr = U32(34175, 65532)
    /\ trace.value = U32(57005, 48879)
    /\ Lands(trace.addr)
    /\ read_word(memory, trace.addr) = U32(57005, 48879)

SameWindows ==
    /\ \A x \in RamOffsets :
          translate_address(Add32(RAM_START, x)) = translate_address(Add32(U32(49152, 0), x))
    /\ \A x \in RamOffsets :
          Offset32(Add32(U32(32768, 0), x)) = Offset32(Add32(U32(49152, 0), x))

\* C6 as stated: whenever two virtual addresses translate to the same
\* physical offset, a word written through one is the word read through the
\* other; 0x80000000+x and 0xC0000000+x translate to the same offset.
C6_AliasingAnyOffset ==
    /\ trace.op = "write_word" =>
          \A b \in WordAddrs :
              translate_address(b) = translate_address(trace.addr) =>
                  read_word(memory, b) = trace.value
    /\ (trace.op = "write32" /\ (InMem1(trace.addr) \/ InMem2(trace.addr))) =>
          \A b \in Word32Addrs :
              Offset32(b) = Offset32(trace.addr) =>
                  read32(mem1, mem2, io, b) = trace.value
    /\ SameWindows

\* C6 amended: whenever two virtual addresses translate to the same
\* physical offset and that offset does not fault, a word written through
\* one is the word read through the other; for every offset x inside main
\* RAM, 0x80000000+x and 0xC0000000+x translate to the same offset.
C6_Aliasing ==
    /\ (trace.op = "write_word" /\ Lands(trace.addr)) =>
          \A b \in WordAddrs :
              translate_address(b) = translate_address(trace.addr) =>
                  read_word(memory, b) = trace.value
    /\ (trace.op = "write32" /\ Lands32(trace.addr)) =>
          \A b \in Word32Addrs :
              Offset32(b) = Offset32(trace.addr) =>
                  read32(mem1, mem2, io, b) = trace.value
    /\ SameWindows

\* the transition is a call of Memory::write32
Write32Step == trace'.op = "write32" /\ trace'.n = trace.n + 1

\* the word Memory::read32 returns for address a in the current state
Read32(a) == read32(mem1, mem2, io, a)

\* C21: a read of the background colour register returns the value of the
\* most recent write32 to it, and 0 before any write: a write32 to it makes
\* the next read return the written value and a write32 to any other
\* address leaves what is read from it unchanged.  A write32 to the input
\* state register changes neither the value read from that register nor
\* MEM1, MEM2 or any other register.
C21_SingleWriter ==
    [][Write32Step =>
          /\ trace.n = 0 => Read32(REG_VIDEO_BG_COLOR) = Zero32
          /\ read32(mem1', mem2', io', REG_VIDEO_BG_COLOR) =
                (IF trace'.addr = REG_VIDEO_BG_COLOR THEN trace'.value
                 ELSE Read32(REG_VIDEO_BG_COLOR))
          /\ trace'.addr = REG_INPUT_STATE =>
                /\ read32(mem1', mem2', io', REG_INPUT_STATE) = Read32(REG_INPUT_STATE)
                /\ UNCHANGED <<mem1, mem2, io>>]_vars

\* 0x4C000064 was written to the background colour register, then
\* 0xDEADBEEF to the input state register: the colour still reads
\* 0x4C000064 and the input state reads 0
C21_Witness ==
    /\ trace.op = "write32"
    /\ trace.n = 2
    /\ trace.addr = REG_INPUT_STATE
    /\ trace.value = U32(57005, 48879)
    /\ Read32(REG_VIDEO_BG_COLOR) = RFI_STUB
    /\ Read32(REG_INPUT_STATE) = Zero32
    /\ Read32(REG_AUDIO_FREQ) = Zero32
    /\ mem1 = EmptyMap /\ mem2 = EmptyMap

\* a lies in the main-RAM window of translate_address
InRamWindow(a) == Le32(RAM_START, a) /\ Le32(a, RAM_END)

\* a lies in the cached MEM1 window of Memory::read32 / write32
InCachedMem1(a) == InWindow(a, U32(32768, 0), MEM1_SIZE)

\* the words at a and b share no byte
Apart(a, b) == Le32(AddInt(a, 4), b) \/ Le32(AddInt(b, 4), a)

\* C32: two distinct addresses of one RAM window (0x80000000..0x81FFFFFF
\* of translate_address, the cached MEM1 window of Memory) have distinct
\* offsets, and a word write at one of them leaves the word read at any
\* non-overlapping address of the same window unchanged.
C32_WindowInjective ==
    [][/\ (trace'.op = "write_word" /\ trace'.n = trace.n + 1 /\ InRamWindow(trace'.addr)) =>
            \A b \in WordAddrs :
               /\ (InRamWindow(b) /\ b # trace'.addr) =>
                     translate_address(b) # translate_address(trace'.addr)
               /\ (InRamWindow(b) /\ Apart(b, trace'.addr)) =>
                     read_word(memory', b) = read_word(memory, b)
       /\ (Write32Step /\ InCachedMem1(trace'.addr)) =>
            \A b \in Word32Addrs :
               /\ (InCachedMem1(b) /\ b # trace'.addr) =>
                     Mem1Offset(b) # Mem1Offset(trace'.addr)
               /\ (InCachedMem1(b) /\ Apart(b, trace'.addr)) =>
                     read32(mem1', mem2', io', b) = Read32(b)]_vars

\* what holds instead: a word write leaves the word read at b unchanged
\* when the offsets of the two addresses are four or more bytes apart
OffsetsApartIndependent ==
    [][/\ (trace'.op = "write_word" /\ trace'.n = trace.n + 1 /\ InRamWindow(trace'.addr)) =>
            \A b \in WordAddrs :
               (InRamWindow(b)
                  /\ Apart(translate_address(b), translate_address(trace'.addr))) =>
                     read_word(memory', b) = read_word(memory, b)
       /\ (Write32Step /\ InCachedMem1(trace'.addr)) =>
            \A b \in Word32Addrs :
               (InCachedMem1(b) /\ Apart(Mem1Offset(b), Mem1Offset(trace'.addr))) =>
                     read32(mem1', mem2', io', b) = Read32(b)]_vars

\* 0xDEADBEEF written at 0x80800000 by write_word is read at 0x80000000
RamWindowAliases ==
    /\ trace.op = "write_word"
    /\ trace.n = 1
    /\ trace.addr = U32(32896, 0)
    /\ trace.value = U32(57005, 48879)
    /\ translate_address(U32(32896, 0)) = Zero32
    /\ read_word(memory, U32(32768, 0)) = U32(57005, 48879)

\* 0xDEADBEEF written at 0x80800000 by write32 is read at 0x80000000
Mem1WindowAliases ==
    /\ trace.op = "write32"
    /\ trace.n = 1
    /\ trace.addr = U32(32896, 0)
    /\ trace.value = U32(57005, 48879)
    /\ Mem1Offset(U32(32896, 0)) = Zero32
    /\ Read32(U32(32768, 0)) = U32(57005, 48879)

\* a word written at 0xC0000000 is read back at 0x80000000
C6_Witness ==
    /\ trace.op = "write_word"
    /\ trace.addr = U32(49152, 0)
    /\ trace.value = U32(57005, 48879)
    /\ translate_address(U32(32768, 0)) = translate_address(trace.addr)
    /\ read_word(memory, U32(32768, 0)) = U32(57005, 48879)

----------------------------------------------------------------------------
(* src/emuwiiv0.x.x.cpp : class Memory (no translation, faults are thrown) *)

xx_kMemorySize == U32(1408, 0)                           \* (24 + 64) * 1024 * 1024

\* Memory::ReadWord: thrown is TRUE when std::out_of_range leaves the call
xx_ReadWord(data, address) ==
    IF Le32(xx_kMemorySize, AddInt(address, 3))
    THEN [thrown |-> TRUE, value |-> Zero32]
    ELSE [thrown |-> FALSE, value |-> Word(data, address)]

\* Memory::WriteWord: the buffer after the call, and whether it threw
xx_WriteWord(data, address, value) ==
    IF Le32(xx_kMemorySize, AddInt(address, 3))
    THEN [thrown |-> TRUE, data |-> data]
    ELSE [thrown |-> FALSE, data |-> StoreBytes(data, address, value)]

\* FetchInstruction: the catch block turns the exception into the word 0
xx_FetchInstruction(st, data) ==
    LET r == xx_ReadWord(data, st.pc)
    IN IF r.thrown THEN Zero32 ELSE r.value

----------------------------------------------------------------------------
(* src/emuwiiv0.cpp : the draft with a 16 MB buffer and no translation     *)

v0_MEMORY_SIZE == U32(256, 0)                            \* 16 * 1024 * 1024

\* address > MEMORY_SIZE - 4
v0_OutOfBounds(address) == Lt32(AddInt(v0_MEMORY_SIZE, -4), address)

v0_read_word(mem, address) ==
    IF v0_OutOfBounds(address) THEN Zero32
    ELSE U32(MemByte(mem, AddInt(address, 3)) * 256 + MemByte(mem, AddInt(address, 2)),
             MemByte(mem, AddInt(address, 1)) * 256 + MemByte(mem, address))

v0_write_word(mem, address, value) ==
    IF v0_OutOfBounds(address) THEN mem
    ELSE LET m0 == Store(mem, address, value[2] % 256, 0)                \* value & 0xFF
             m1 == Store(m0, AddInt(address, 1), value[2] \div 256, 0)   \* value >> 8
             m2 == Store(m1, AddInt(address, 2), value[1] % 256, 0)      \* value >> 16
         IN Store(m2, AddInt(address, 3), value[1] \div 256, 0)          \* value >> 24

----------------------------------------------------------------------------
(* Single accesses: the translator and the word operations of three drafts *)
(* applied to drawn addresses, values and buffer contents                  *)

MaxAccess == 1

\* high and low halves of the probed virtual addresses: the ends of every
\* window of the translator, of the buffer, and of the 32-bit range, and
\* 0x8100xxxx, 0x8110xxxx inside the main-RAM window
TranslateHi ==
    {0, 1, 255, 256, 272, 1407, 1408, 1409, 32767, 32768, 32769, 33024, 33040, 33279,
     33280, 34175,
     34176, 36864, 36882, 49152, 50559, 52223, 52224, 52225, 52479, 52480, 52481, 65535}
TranslateLo == {0, 1, 3, 4, 32768, 49152, 65532, 65533, 65535}

TranslateAddrs == {U32(h, l) : <<h, l>> \in TranslateHi \X TranslateLo}

\* 0x80000000, 0x80000001, 0x857FFFFC, 0x857FFFFD, 0xC57FFFFE, 0xFFFFFFFF,
\* 0x90000000, 0x057FFFFC, and around the framebuffer alias: 0x8FFFFFFC,
\* 0x90000005, 0x9012BFFC, 0x9012C000, and 0x81000000 in the main-RAM window
AccessAddrs ==
    {U32(32768, 0), U32(32768, 1), U32(34175, 65532), U32(34175, 65533),
     U32(50559, 65534), U32(65535, 65535), U32(36864, 0), U32(1407, 65532),
     U32(36863, 65532), U32(36864, 5), U32(36882, 49148), U32(36882, 49152),
     U32(33024, 0)}

\* addresses handed to the drafts without translation: 0, 1, 0x00FFFFFC,
\* 0x00FFFFFD, 0x01000000, 0x057FFFFC, 0x057FFFFD, 0x05800000, 0x80000000
\* (0x80000000 is the pc of the only FetchInstruction call that
\* src/emuwiiv0.x.x.cpp makes before it stops)
RawAddrs ==
    {Zero32, U32(0, 1), U32(255, 65532), U32(255, 65533), U32(256, 0),
     U32(1407, 65532), U32(1407, 65533), U32(1408, 0), U32(32768, 0)}

\* 0x11223344, 0x000000FF
AccessValues == {U32(4386, 13124), U32(0, 255)}

\* a buffer whose first eight bytes and last four bytes (of the 16 MB and of
\* the 88 MB buffer) are non-zero and pairwise distinct within each word
FilledBuffer ==
    Block(0, <<U32(258, 772), U32(1286, 1800)>>)
        @@ (U32(255, 65532) :> 161 @@ U32(255, 65533) :> 162
              @@ U32(255, 65534) :> 163 @@ U32(255, 65535) :> 164)
        @@ (U32(1407, 65532) :> 177 @@ U32(1407, 65533) :> 178
              @@ U32(1407, 65534) :> 179 @@ U32(1407, 65535) :> 180)

\* a presentation buffer whose pixels 0, 1 and 307199 (the last) are set
FilledFrame == (0 :> U32(0, 255)) @@ (1 :> U32(255, 0)) @@ (307199 :> U32(65280, 255))

\* the unit under test: the translator alone, or the word operations of
\* src/emuwiiv1.cpp, src/emuwiiv0.x.x.cpp, src/emuwiiv0.cpp (16 MB draft)
AccessUnits == {"translate", "access_v1", "access_xx", "access_v0"}

InitAccess ==
    /\ phase \in AccessUnits
    /\ state = CPUState
    /\ memory \in {EmptyMap, FilledBuffer}
    /\ framebuffer \in {EmptyMap, FilledFrame}
    /\ starlet_memory = StarletMemory
    /\ interrupt_vectors = EmptyMap
    /\ audio_state = [initialized |-> FALSE, buffer |-> EmptyMap]
    /\ mem1 = EmptyMap
    /\ mem2 = EmptyMap
    /\ io = <<>>
    /\ trace = [op |-> "init", addr |-> Zero32, value |-> Zero32, result |-> Zero32,
                thrown |-> FALSE, n |-> 0]

NoAccess == <<phase, state, starlet_memory, interrupt_vectors, audio_state, NoUnit>>

Accessed(op, a, v, result, thrown, n) ==
    [op |-> op, addr |-> a, value |-> v, result |-> result, thrown |-> thrown, n |-> n]

\* translate_address(a) of src/emuwiiv1.cpp
Translate ==
    /\ phase = "translate"
    /\ \E a \in TranslateAddrs :
          trace' = Accessed("translate", a, Zero32, translate_address(a), FALSE, trace.n)
    /\ UNCHANGED <<memory, framebuffer, NoAccess>>

\* read_word(a) of src/emuwiiv1.cpp
ReadWord ==
    /\ phase = "access_v1"
    /\ \E a \in AccessAddrs :
          trace' = Accessed("read_word", a, Zero32, read_word(memory, a), FALSE, trace.n)
    /\ UNCHANGED <<memory, framebuffer, NoAccess>>

\* write_word(a, v) of src/emuwiiv1.cpp
WriteWordV1 ==
    /\ phase = "access_v1"
    /\ trace.n < MaxAccess
    /\ \E a \in AccessAddrs, v \in AccessValues :
          /\ \E w \in {write_word(memory, framebuffer, a, v)} :
                memory' = w[1] /\ framebuffer' = w[2]
          /\ trace' = Accessed("write_word", a, v, Zero32, FALSE, trace.n + 1)
    /\ UNCHANGED NoAccess

\* FetchInstruction with state.pc = a of src/emuwiiv0.x.x.cpp
FetchInstructionXX ==
    /\ phase = "access_xx"
    /\ \E a \in RawAddrs :
          trace' = Accessed("FetchInstruction", a, Zero32,
                            xx_FetchInstruction([state EXCEPT !.pc = a], memory),
                            xx_ReadWord(memory, a).thrown, trace.n)
    /\ UNCHANGED <<memory, framebuffer, NoAccess>>

\* Memory::WriteWord(a, v) of src/emuwiiv0.x.x.cpp
WriteWordXX ==
    /\ phase = "access_xx"
    /\ trace.n < MaxAccess
    /\ \E a \in RawAddrs, v \in AccessValues :
          \E w \in {xx_WriteWord(memory, a, v)} :
             /\ memory' = w.data
             /\ trace' = Accessed("WriteWord", a, v, Zero32, w.thrown, trace.n + 1)
    /\ UNCHANGED <<framebuffer, NoAccess>>

\* read_word(a) of src/emuwiiv0.cpp (16 MB draft)
ReadWordV0 ==
    /\ phase = "access_v0"
    /\ \E a \in RawAddrs :
          trace' = Accessed("v0_read_word", a, Zero32, v0_read_word(memory, a), FALSE,
                            trace.n)
    /\ UNCHANGED <<memory, framebuffer, NoAccess>>

\* write_word(a, v) of src/emuwiiv0.cpp (16 MB draft)
WriteWordV0 ==
    /\ phase = "access_v0"
    /\ trace.n < MaxAccess
    /\ \E a \in RawAddrs, v \in AccessValues :
          /\ memory' = v0_write_word(memory, a, v)
          /\ trace' = Accessed("v0_write_word", a, v, Zero32, FALSE, trace.n + 1)
    /\ UNCHANGED <<framebuffer, NoAccess>>

NextAccess ==
    \/ Translate
    \/ ReadWord
    \/ WriteWordV1
    \/ FetchInstructionXX
    \/ WriteWordXX
    \/ ReadWordV0
    \/ WriteWordV0

SpecAccess == InitAccess /\ [][NextAccess]_vars

\* C15: translate_address returns, for every 32-bit virtual address, a
\* physical offset (a 32-bit value) smaller than MEMORY_SIZE.
C15_TranslateTotal ==
    [][trace'.op = "translate" =>
          /\ trace'.result \in (0..(H - 1)) \X (0..(H - 1))
          /\ Lt32(trace'.result, MEMORY_SIZE)]_vars

\* 0xFFFFFFFF, outside every window, has been translated to 0x057FFFFF
C15_Witness ==
    /\ trace.op = "translate"
    /\ trace.addr = U32(65535, 65535)
    /\ trace.result = U32(1407, 65535)

\* offset + 3 lies beyond a buffer of the given size
FaultsAt(offset, size) == Le32(AddInt(size, -3), offset)

BytesOf(v) == <<v[1] \div 256, v[1] % 256, v[2] \div 256, v[2] % 256>>

\* the four bytes of the buffer at offsets p .. p+3
BytesAt(mem, p) == [i \in 1..4 |-> MemByte(mem, AddInt(p, i - 1))]

\* byte[p]*2^24 + byte[p+1]*2^16 + byte[p+2]*2^8 + byte[p+3]
BigEndianWord(mem, p) ==
    U32(BytesAt(mem, p)[1] * 256 + BytesAt(mem, p)[2],
        BytesAt(mem, p)[3] * 256 + BytesAt(mem, p)[4])

\* the word operations of src/emuwiiv1.cpp alone are big-endian
V1_BigEndian ==
    [][/\ (trace'.op = "write_word"
              /\ ~FaultsAt(translate_address(trace'.addr), MEMORY_SIZE)) =>
            BytesAt(memory', translate_address(trace'.addr)) = BytesOf(trace'.value)
       /\ (trace'.op = "read_word"
              /\ ~FaultsAt(translate_address(trace'.addr), MEMORY_SIZE)) =>
            trace'.result = BigEndianWord(memory, translate_address(trace'.addr))]_vars

\* C17: word access is big-endian in both cited drafts: a write of v that
\* does not fault leaves the most significant byte of v at offset p and the
\* least significant at p+3, and a read that does not fault returns
\* byte[p]*2^24 + byte[p+1]*2^16 + byte[p+2]*2^8 + byte[p+3]; p is
\* translate(a) in src/emuwiiv1.cpp and a itself in the 16 MB draft of
\* src/emuwiiv0.cpp, which has no translation.
C17_BigEndian ==
    [][/\ (trace'.op = "write_word"
              /\ ~FaultsAt(translate_address(trace'.addr), MEMORY_SIZE)) =>
            BytesAt(memory', translate_address(trace'.addr)) = BytesOf(trace'.value)
       /\ (trace'.op = "read_word"
              /\ ~FaultsAt(translate_address(trace'.addr), MEMORY_SIZE)) =>
            trace'.result = BigEndianWord(memory, translate_address(trace'.addr))
       /\ (trace'.op = "v0_write_word" /\ ~FaultsAt(trace'.addr, v0_MEMORY_SIZE)) =>
            BytesAt(memory', trace'.addr) = BytesOf(trace'.value)
       /\ (trace'.op = "v0_read_word" /\ ~FaultsAt(trace'.addr, v0_MEMORY_SIZE)) =>
            trace'.result = BigEndianWord(memory, trace'.addr)]_vars

\* a lies in [0x90000000, 0x90000000 + 640*480*4), by its halves: the end
\* of the range is 0x9012C000
InAlias(a) ==
    /\ a[1] >= 36864
    /\ a[1] < 36882 \/ (a[1] = 36882 /\ a[2] < 49152)

\* (a - 0x90000000) / 4 for a in the alias
AliasPixel(a) == ((a[1] - 36864) * H + a[2]) \div 4

\* C22: a write_word(a, v) that does not fault, with a in the framebuffer
\* alias, sets presentation buffer entry (a - 0x90000000) / 4 to v, leaves
\* every other entry as it was and stores the four bytes of v in memory; a
\* write_word to an address outside the alias leaves the presentation
\* buffer unchanged.
C22_FramebufferMirror ==
    [][trace'.op = "write_word" =>
          IF InAlias(trace'.addr)
          THEN ~FaultsAt(translate_address(trace'.addr), MEMORY_SIZE) =>
                 /\ Fetch(framebuffer', AliasPixel(trace'.addr), Zero32) = trace'.value
                 /\ \A i \in (DOMAIN framebuffer \cup DOMAIN framebuffer')
                                \ {AliasPixel(trace'.addr)} :
                        Fetch(framebuffer', i, Zero32) = Fetch(framebuffer, i, Zero32)
                 /\ BytesAt(memory', translate_address(trace'.addr)) = BytesOf(trace'.value)
          ELSE framebuffer' = framebuffer]_vars

\* 0x11223344 written through 0x9012BFFC has replaced the last pixel of the
\* filled presentation buffer and is in memory at offset 0x0012BFFC
C22_Witness ==
    /\ phase = "access_v1"
    /\ trace.op = "write_word"
    /\ trace.addr = U32(36882, 49148)
    /\ trace.value = U32(4386, 13124)
    /\ framebuffer = [FilledFrame EXCEPT ![307199] = U32(4386, 13124)]
    /\ read_word(memory, U32(32786, 49148)) = U32(4386, 13124)

\* 0x11223344 written through 0x9012C000, the first address after the
\* alias, is in memory and the filled presentation buffer is as it was
AfterAliasWitness ==
    /\ phase = "access_v1"
    /\ trace.op = "write_word"
    /\ trace.addr = U32(36882, 49152)
    /\ trace.value = U32(4386, 13124)
    /\ framebuffer = FilledFrame
    /\ read_word(memory, trace.addr) = U32(4386, 13124)

\* the 64 KB sub-range of the buffer that starts at base
InSubRange(p, base) == Le32(base, p) /\ Le32(p, AddInt(base, 65535))

InHardwareWindow(a) == Le32(HARDWARE_REGS_START, a) /\ Le32(a, HARDWARE_REGS_END)

InStarletWindow(a) == Le32(STARLET_MEM_START, a) /\ Le32(a, STARLET_MEM_END)

\* the two sub-ranges do not overlap, and each window maps into its own
ReservedRangesDisjoint ==
    /\ Lt32(AddInt(HW_REGS_PHYS, 65535), STARLET_PHYS)
    /\ [][trace'.op = "translate" =>
            /\ InHardwareWindow(trace'.addr) => InSubRange(trace'.result, HW_REGS_PHYS)
            /\ InStarletWindow(trace'.addr) => InSubRange(trace'.result, STARLET_PHYS)]_vars

\* C30: translate produces an offset inside the hardware-register sub-range
\* only for addresses of the hardware-register window, an offset inside the
\* coprocessor-memory sub-range only for addresses of the coprocessor-memory
\* window, and the sub-ranges are disjoint; so a write through any other
\* address leaves the first hardware register word as it was.
C30_ReservedExclusive ==
    /\ Lt32(AddInt(HW_REGS_PHYS, 65535), STARLET_PHYS)
    /\ [][/\ trace'.op = "translate" =>
               /\ InSubRange(trace'.result, HW_REGS_PHYS) => InHardwareWindow(trace'.addr)
               /\ InSubRange(trace'.result, STARLET_PHYS) => InStarletWindow(trace'.addr)
          /\ (trace'.op = "write_word" /\ ~InHardwareWindow(trace'.addr)) =>
               read_word(memory', HARDWARE_REGS_START) = read_word(memory, HARDWARE_REGS_START)
         ]_vars

\* 0x81000000, in the main-RAM window, was written and the word read at
\* 0xCC000000 is the written one
RamWriteHitsHardwareRegister ==
    /\ trace.op = "write_word"
    /\ trace.addr = U32(33024, 0)
    /\ trace.value = U32(4386, 13124)
    /\ read_word(memory, HARDWARE_REGS_START) = U32(4386, 13124)

\* 0x01100000, outside every window, was translated to the first offset of
\* the coprocessor-memory sub-range
FallbackHitsStarletRange ==
    /\ trace.op = "translate"
    /\ trace.addr = U32(272, 0)
    /\ trace.result = STARLET_PHYS

----------------------------------------------------------------------------
(* src/wiiemu.cpp : the draft with the fatal unknown-opcode policy         *)

wiiemu_MEMORY_SIZE == U32(1408, 0)                       \* (24 + 64) * 1024 * 1024

\* CPUState::CPUState(): pc(0), running(true), interrupts_enabled(false),
\* kernel_mode(false); gpr and spr zeroed (fpr not modelled)
wiiemu_CPUState ==
    [pc |-> Zero32,
     gpr |-> [r \in 0..31 |-> Zero32],
     spr |-> [s \in {CR, LR} |-> Zero32],
     running |-> TRUE,
     interrupts_enabled |-> FALSE,
     kernel_mode |-> FALSE]

\* the zero-initialised global starlet_memory
wiiemu_StarletMemory == [command |-> Zero32, response |-> Zero32]

wiiemu_get_interrupt_vector(interrupt_type) == U32(32768, 0)

wiiemu_trigger_interrupt(interrupt_type, st) ==
    IF st.interrupts_enabled
    THEN [st EXCEPT !.pc = wiiemu_get_interrupt_vector(interrupt_type),
                    !.interrupts_enabled = FALSE]
    ELSE st

\* no address translation: the address indexes memory[] directly
wiiemu_read_word(mem, address) ==
    IF Le32(wiiemu_MEMORY_SIZE, AddInt(address, 3)) THEN Zero32
    ELSE Word(mem, address)

wiiemu_handle_starlet_command(st, sm) ==
    IF sm.command # Zero32
    THEN [handled |-> TRUE,
          state |-> wiiemu_trigger_interrupt(1, st),
          starlet_memory |->
              [command |-> Zero32,
               response |-> IF sm.command = U32(0, 1) THEN Zero32 ELSE U32(0, 255)]]
    ELSE [handled |-> FALSE, state |-> st, starlet_memory |-> sm]

wiiemu_KnownOpcodes == {OP_ADD, OP_B, OP_PS_ADD}

\* the default case skips the word instead of stopping the machine
wiiemu_execute_instruction_skip(instruction, st) ==
    IF Opcode(instruction) = OP_ADD
    THEN [st EXCEPT !.gpr[Field11(instruction)] =
                        Add32(st.gpr[Field21(instruction)], st.gpr[Field16(instruction)]),
                    !.pc = AddInt(st.pc, 4)]
    ELSE IF Opcode(instruction) = OP_B
    THEN [st EXCEPT !.pc = Add32(st.pc, BranchOffset(instruction))]
    ELSE [st EXCEPT !.pc = AddInt(st.pc, 4)]

wiiemu_execute_instruction(instruction, st) ==
    IF Opcode(instruction) = OP_ADD
    THEN [st EXCEPT !.gpr[Field11(instruction)] =
                        Add32(st.gpr[Field21(instruction)], st.gpr[Field16(instruction)]),
                    !.pc = AddInt(st.pc, 4)]
    ELSE IF Opcode(instruction) = OP_B
    THEN [st EXCEPT !.pc = Add32(st.pc, BranchOffset(instruction))]
    ELSE IF Opcode(instruction) = OP_PS_ADD
    THEN [st EXCEPT !.pc = AddInt(st.pc, 4)]
    ELSE [st EXCEPT !.running = FALSE]

wiiemu_fetch_instruction(st, mem) == wiiemu_read_word(mem, st.pc)

----------------------------------------------------------------------------
(* The interrupt controller on its own: trigger_interrupt of both drafts   *)
(* applied to CPUState values drawn from a bounded set                     *)

MaxTriggers == 2

IrqTypes == {0, STARLET_IRQ, SYSCALL_IRQ, 11, 12, 99, -1}

\* 0x80000000, 0x80000010, 0x00000000
TriggerPcs == {KERNEL_BASE_ADDR, U32(32768, 16), Zero32}

\* 0, 0x80000004
TriggerLrs == {Zero32, U32(32768, 4)}

InitTrigger ==
    /\ phase \in {"trigger", "wiiemu_trigger"}
    /\ \E pc \in TriggerPcs, lr \in TriggerLrs, ie \in BOOLEAN, km \in BOOLEAN :
          state = [(IF phase = "trigger" THEN CPUState ELSE wiiemu_CPUState)
                      EXCEPT !.pc = pc, !.spr[LR] = lr, !.interrupts_enabled = ie,
                             !.kernel_mode = km]
    /\ interrupt_vectors \in
          (IF phase = "trigger" THEN {KernelVectors, EmptyMap} ELSE {EmptyMap})
    /\ memory = Program(<<RFI_STUB>>)
    /\ framebuffer = EmptyMap
    /\ starlet_memory =
          (IF phase = "trigger" THEN StarletMemory ELSE wiiemu_StarletMemory)
    /\ audio_state = [initialized |-> FALSE, buffer |-> EmptyMap]
    /\ mem1 = EmptyMap
    /\ mem2 = EmptyMap
    /\ io = <<>>
    /\ trace = [op |-> "init", type |-> 0, before |-> state, n |-> 0]

NoTrigger == <<phase, memory, framebuffer, starlet_memory, interrupt_vectors,
               audio_state, NoUnit>>

\* trigger_interrupt(t, state) of src/emuwiiv1.cpp
Trigger ==
    /\ phase = "trigger"
    /\ trace.n < MaxTriggers
    /\ \E t \in IrqTypes :
          /\ state' = trigger_interrupt(t, state, interrupt_vectors)
          /\ trace' = [op |-> "trigger", type |-> t, before |-> state, n |-> trace.n + 1]
    /\ UNCHANGED NoTrigger

\* the return-from-interrupt instruction re-arms the controller
ReturnFromInterrupt ==
    /\ phase = "trigger"
    /\ trace.n < MaxTriggers
    /\ state' = ExecRfi(state)
    /\ trace' = [op |-> "rfi", type |-> 0, before |-> state, n |-> trace.n + 1]
    /\ UNCHANGED NoTrigger

\* trigger_interrupt(t, state) of src/wiiemu.cpp
wiiemu_Trigger ==
    /\ phase = "wiiemu_trigger"
    /\ trace.n < MaxTriggers
    /\ \E t \in IrqTypes :
          /\ state' = wiiemu_trigger_interrupt(t, state)
          /\ trace' = [op |-> "trigger", type |-> t, before |-> state, n |-> trace.n + 1]
    /\ UNCHANGED NoTrigger

NextTrigger ==
    \/ Trigger
    \/ ReturnFromInterrupt
    \/ wiiemu_Trigger

SpecTrigger == InitTrigger /\ [][NextTrigger]_vars

\* the transition is a call of trigger_interrupt
TriggerStep == trace'.op = "trigger" /\ trace'.n = trace.n + 1

\* C7: trigger(type) while interrupts are disarmed is a no-op for every
\* interrupt type: pc, interruptsEnabled, kernelMode, the link-register slot
\* and all other register and memory state are unchanged (both drafts).
C7_TriggerDisarmed ==
    [][(TriggerStep /\ ~state.interrupts_enabled) =>
          UNCHANGED <<state, memory, framebuffer, starlet_memory, interrupt_vectors,
                      audio_state>>]_vars

\* a system-call interrupt was triggered on a disarmed machine in user mode
C7_Witness ==
    /\ phase = "trigger"
    /\ trace.op = "trigger"
    /\ trace.type = SYSCALL_IRQ
    /\ ~trace.before.interrupts_enabled
    /\ ~trace.before.kernel_mode
    /\ trace.before.pc = U32(32768, 16)
    /\ interrupt_vectors = KernelVectors
    /\ state = trace.before

\* C8: trigger(type) while interrupts are armed sets the link-register slot
\* to the pc held before the trigger, sets pc to the vector mapped for that
\* type (or to the default base vector when the type has no entry in the
\* vector table), sets interruptsEnabled = false and kernelMode = true.
C8_TriggerArmed ==
    [][(TriggerStep /\ phase = "trigger" /\ state.interrupts_enabled) =>
          /\ state'.spr[LR] = state.pc
          /\ state'.pc = IF trace'.type \in DOMAIN interrupt_vectors
                         THEN interrupt_vectors[trace'.type]
                         ELSE INTERRUPT_TABLE_BASE
          /\ ~state'.interrupts_enabled
          /\ state'.kernel_mode]_vars

\* an armed user-mode machine at 0x80000010 took the system-call interrupt
\* to its vector 0x80003090
C8_Witness ==
    /\ phase = "trigger"
    /\ trace.op = "trigger"
    /\ trace.type = SYSCALL_IRQ
    /\ trace.before.interrupts_enabled
    /\ ~trace.before.kernel_mode
    /\ trace.before.pc = U32(32768, 16)
    /\ interrupt_vectors = KernelVectors
    /\ state.pc = U32(32768, 12432)
    /\ state.spr[LR] = U32(32768, 16)
    /\ state.kernel_mode /\ ~state.interrupts_enabled

----------------------------------------------------------------------------
(* src/wiiemu.cpp : main(), load_game and the emulation loop               *)

\* opcodes no case of the switch handles: 0 (the zero word), ADDI, RFI,
\* the extended group, 63
UnknownOpcodes == {0, OP_ADDI, OP_RFI, OP_EXT, 63}

\* words with an unhandled opcode and non-zero register fields
UnknownWords == {EncR(op, 1, 2, 3) : op \in UnknownOpcodes \ {0}} \cup {Zero32}

\* images of MEMORY_SIZE bytes; the program sits at offset 0, where pc starts
wiiemu_Images ==
    {Program(<<u>>) : u \in UnknownWords}
    \cup {Program(<<EncR(OP_ADD, 1, 2, 3), u>>) : u \in UnknownWords}
    \cup {Program(<<EncOp(OP_PS_ADD), EncR(OP_ADD, 3, 3, 3), u>>) : u \in UnknownWords}
    \cup {Program(<<EncB(8, 0, 0), EncOp(OP_PS_ADD), u>>) : u \in UnknownWords}
    \cup {Program(<<EncB(0, 0, 0)>>), Program(<<EncB(-4, 0, 0)>>)}

\* the issuer's requests: Initialize (1) and an unassigned code
wiiemu_Commands == {1, 2}

\* the loop is entered whatever running holds
LoopCondition_ignored(st) == TRUE

\* while (state.running)
LoopCondition(st) == st.running

InitWiiemu ==
    /\ phase = "wiiemu_load"
    /\ state = wiiemu_CPUState
    /\ memory = EmptyMap
    /\ framebuffer = EmptyMap
    /\ starlet_memory = wiiemu_StarletMemory
    /\ interrupt_vectors = EmptyMap
    /\ audio_state = [initialized |-> FALSE, buffer |-> EmptyMap]
    /\ mem1 = EmptyMap
    /\ mem2 = EmptyMap
    /\ io = <<>>
    /\ trace = [op |-> "init", arg |-> Zero32, quit |-> FALSE, steps |-> 0, issued |-> 0,
                 ran |-> <<>>]

NoWiiemu == <<framebuffer, interrupt_vectors, audio_state, NoUnit>>

\* load_game succeeds: the file fills memory[]
wiiemu_LoadGame ==
    /\ phase = "wiiemu_load"
    /\ \E img \in wiiemu_Images : memory' = img
    /\ phase' = "wiiemu_loop"
    /\ trace' = [trace EXCEPT !.op = "load_game"]
    /\ UNCHANGED <<state, starlet_memory, NoWiiemu>>

\* load_game fails: close_sdl() and return 1
wiiemu_LoadGameFails ==
    /\ phase = "wiiemu_load"
    /\ phase' = "wiiemu_exit"
    /\ trace' = [trace EXCEPT !.op = "load_game_failed"]
    /\ UNCHANGED <<state, memory, starlet_memory, NoWiiemu>>

\* the host side of the mailbox: a request is placed while none is outstanding
wiiemu_IssueCommand ==
    /\ phase = "wiiemu_loop"
    /\ state.running
    /\ starlet_memory.command = Zero32
    /\ trace.issued < MaxIssue
    /\ \E c \in wiiemu_Commands :
          starlet_memory' = [starlet_memory EXCEPT !.command = U32(0, c)]
    /\ trace' = [trace EXCEPT !.op = "issue", !.issued = trace.issued + 1]
    /\ UNCHANGED <<phase, state, memory, NoWiiemu>>

\* one iteration of while (state.running): the event poll (SDL_QUIT clears
\* running, the iteration goes on), fetch_instruction, execute_instruction,
\* handle_starlet_command, render_frame (no modelled state).  trace.ran is
\* the value of running at the calls of fetch_instruction,
\* execute_instruction and handle_starlet_command.
wiiemu_Step ==
    /\ phase = "wiiemu_loop"
    /\ LoopCondition(state)
    /\ trace.steps < MaxSteps
    /\ \E quit \in BOOLEAN :
          LET polled == IF quit THEN [state EXCEPT !.running = FALSE] ELSE state
              instruction == wiiemu_fetch_instruction(polled, memory)
              executed == wiiemu_execute_instruction(instruction, polled)
              r == wiiemu_handle_starlet_command(executed, starlet_memory)
          IN /\ state' = r.state
             /\ starlet_memory' = r.starlet_memory
             /\ trace' = [trace EXCEPT !.op = "step", !.arg = instruction,
                                       !.quit = quit, !.steps = trace.steps + 1,
                                       !.ran = <<polled.running, polled.running,
                                                 executed.running>>]
    /\ UNCHANGED <<phase, memory, NoWiiemu>>

\* the loop condition fails: close_sdl() and return 0
wiiemu_Exit ==
    /\ phase = "wiiemu_loop"
    /\ ~LoopCondition(state)
    /\ phase' = "wiiemu_exit"
    /\ trace' = [trace EXCEPT !.op = "exit"]
    /\ UNCHANGED <<state, memory, starlet_memory, NoWiiemu>>

NextWiiemu ==
    \/ wiiemu_LoadGame
    \/ wiiemu_LoadGameFails
    \/ wiiemu_IssueCommand
    \/ wiiemu_Step
    \/ wiiemu_Exit

SpecWiiemu == InitWiiemu /\ [][NextWiiemu]_vars

\* the transition is one iteration of the loop with no quit event in it
wiiemu_StepTaken ==
    phase = "wiiemu_loop" /\ trace'.steps = trace.steps + 1 /\ ~trace'.quit

\* C10: under the fatal unknown-opcode policy, one step whose fetched word
\* has an unrecognized opcode ends with running = false and with no other
\* change to registers (pc, GPRs, special registers, flags), memory or,
\* when no request is pending, mailbox state.
C10_FatalUnknownOpcode ==
    [][(wiiemu_StepTaken
            /\ Opcode(wiiemu_fetch_instruction(state, memory)) \notin wiiemu_KnownOpcodes) =>
          /\ state' = [state EXCEPT !.running = FALSE]
          /\ memory' = memory
          /\ starlet_memory.command = Zero32 => starlet_memory' = starlet_memory]_vars

\* after an ADD, the word at pc = 4 with the unhandled opcode 0x19 stopped
\* the machine, with no quit event in that iteration
C10_Witness ==
    /\ phase = "wiiemu_loop"
    /\ trace.op = "step"
    /\ trace.steps = 2
    /\ ~trace.quit
    /\ Opcode(trace.arg) = OP_ADDI
    /\ trace.arg = wiiemu_fetch_instruction(state, memory)
    /\ state.pc = U32(0, 4)
    /\ ~state.running

\* the command codes with a case of their own in src/emuwiiv1.cpp
KnownCommands == {U32(0, c) : c \in {CMD_INIT, CMD_RESET, CMD_READ, CMD_WRITE, CMD_AUDIO}}

\* C24: a poll that finds a non-zero command code with no case of its own
\* sets response = 0xFF, status = 1 (completed) and command = 0, changes no
\* byte of memory, of the framebuffer or of the audio buffer, and leaves
\* running as it was.  In src/wiiemu.cpp, whose mailbox has no status
\* field, the poll is the last call of a loop iteration: response = 0xFF,
\* command = 0, memory unchanged, and running is what the executor of that
\* iteration left.
C24_UnknownCommand ==
    [][/\ (PollStep /\ starlet_memory.command \notin KnownCommands \cup {Zero32}) =>
            /\ starlet_memory'.response = RESP_ERROR
            /\ starlet_memory'.status = STATUS_DONE
            /\ starlet_memory'.command = Zero32
            /\ UNCHANGED <<memory, framebuffer, audio_state>>
            /\ state'.running = state.running
       /\ (phase = "wiiemu_loop" /\ trace'.op = "step"
              /\ starlet_memory.command \notin {Zero32, U32(0, 1)}) =>
            /\ starlet_memory'.response = U32(0, 255)
            /\ starlet_memory'.command = Zero32
            /\ UNCHANGED <<memory, framebuffer>>
            /\ state'.running =
                  (~trace'.quit /\ Opcode(trace'.arg) \in wiiemu_KnownOpcodes)]_vars

\* the unassigned code 9 was answered with 0xFF and status 1 on a machine
\* that took the coprocessor interrupt and is still running
C24_Witness ==
    /\ phase = "fetch"
    /\ trace.op = "poll"
    /\ trace.arg = U32(0, 9)
    /\ trace.triggers = <<STARLET_IRQ>>
    /\ starlet_memory.response = RESP_ERROR
    /\ starlet_memory.status = STATUS_DONE
    /\ starlet_memory.command = Zero32
    /\ state.pc = KernelVectors[STARLET_IRQ]
    /\ state.running

\* the step fetches a load word, and the word executed by the step before
\* it, with no coprocessor command handled in between, was a store word
\* with the same base register field and displacement
LoadAfterStore ==
    /\ ExecuteStep
    /\ Opcode(Fetched) = OP_LWZ
    /\ Len(trace.last) = 2
    /\ Opcode(trace.last) = OP_STW
    /\ Field16(trace.last) = Field16(Fetched)
    /\ Imm16(trace.last) = Imm16(Fetched)

\* base register value + sign-extended 16-bit displacement
BasePlusDisp == AddInt(state.gpr[Field16(Fetched)], Imm16(Fetched))

\* the same, with the literal 0 as base when the base register field is 0
BaseOrZeroPlusDisp ==
    IF Field16(Fetched) = 0 THEN FromInt(Imm16(Fetched)) ELSE BasePlusDisp

\* C28 as stated: for every EA = GPR[ra] + displacement that does not
\* fault, a store word of GPR[rs] to EA followed by a load word from EA
\* into rt yields GPR[rt] = GPR[rs]; each of the two steps advances pc by 4.
C28_StoreLoadAnyBase ==
    [][/\ (LoadAfterStore /\ ~FaultsAt(translate_address(BasePlusDisp), MEMORY_SIZE)) =>
            state'.gpr[Field21(Fetched)] = state.gpr[Field21(trace.last)]
       /\ (ExecuteStep /\ Opcode(Fetched) \in {OP_LWZ, OP_STW}) =>
            state'.pc = AddInt(state.pc, 4)]_vars

\* C28 amended: the same with EA = displacement when the base register
\* field is 0, and EA = GPR[ra] + displacement otherwise.
C28_StoreLoad ==
    [][/\ (LoadAfterStore
              /\ ~FaultsAt(translate_address(BaseOrZeroPlusDisp), MEMORY_SIZE)) =>
            state'.gpr[Field21(Fetched)] = state.gpr[Field21(trace.last)]
       /\ (ExecuteStep /\ Opcode(Fetched) \in {OP_LWZ, OP_STW}) =>
            state'.pc = AddInt(state.pc, 4)]_vars

\* 0xCC000007 stored at 0xCC007FFC, in the hardware register window, was
\* loaded back into r3
C28_Witness ==
    /\ phase = "poll"
    /\ trace.steps = 4
    /\ trace.arg = EncI(OP_LWZ, 3, 1, 32764)
    /\ state.gpr[1] = U32(52224, 0)
    /\ state.gpr[3] = U32(52224, 7)
    /\ read_word(memory, U32(52224, 32764)) = U32(52224, 7)
    /\ MemByte(memory, U32(256, 32767)) = 7
    /\ state.pc = U32(32768, 16)

\* add and add-immediate steps that name register index 0 as a source use
\* the value held in GPR[0]
SlotZeroArithmetic ==
    /\ (Opcode(Fetched) = OP_ADD /\ 0 \in {Field21(Fetched), Field16(Fetched)}) =>
         state'.gpr[Field11(Fetched)] =
             Add32(IF Field21(Fetched) = 0 THEN state.gpr[0] ELSE state.gpr[Field21(Fetched)],
                   IF Field16(Fetched) = 0 THEN state.gpr[0] ELSE state.gpr[Field16(Fetched)])
    /\ (Opcode(Fetched) = OP_ADDI /\ Field21(Fetched) = 0) =>
         state'.gpr[Field16(Fetched)] = AddInt(state.gpr[0], Imm16(Fetched))

\* load-word and store-word steps that name register index 0 as the base
\* access the address base + displacement
SlotZeroAccess(base) ==
    /\ (Opcode(Fetched) = OP_LWZ /\ Field16(Fetched) = 0) =>
         state'.gpr[Field21(Fetched)] = read_word(memory, AddInt(base, Imm16(Fetched)))
    /\ (Opcode(Fetched) = OP_STW /\ Field16(Fetched) = 0) =>
         <<memory', framebuffer'>> =
             write_word(memory, framebuffer, AddInt(base, Imm16(Fetched)),
                        state.gpr[Field21(Fetched)])

\* C29 as stated: no handler hard-wires register 0 to zero; add,
\* add-immediate, load-word and store-word address computation that name
\* register index 0 as a source or base use the value last written to GPR[0].
C29_SlotZeroNotHardWired ==
    [][ExecuteStep => (SlotZeroArithmetic /\ SlotZeroAccess(state.gpr[0]))]_vars

\* C29 amended: add and add-immediate use the value last written to GPR[0];
\* load-word and store-word with register index 0 in the base field use the
\* literal 0 as base, whatever GPR[0] holds.
C29_SlotZero ==
    [][ExecuteStep => (SlotZeroArithmetic /\ SlotZeroAccess(U32(0, 0)))]_vars

\* r0 = 0x100, then r2 = r0 + 7 = 0x107, stored by stw r2,64(0) at address
\* 0x40 and not at 0x140
C29_Witness ==
    /\ phase = "poll"
    /\ trace.steps = 3
    /\ trace.arg = EncI(OP_STW, 2, 0, 64)
    /\ state.gpr[0] = U32(0, 256)
    /\ state.gpr[2] = U32(0, 263)
    /\ read_word(memory, U32(0, 64)) = U32(0, 263)
    /\ read_word(memory, U32(0, 320)) = U32(0, 0)

Aligned(a) == a[2] % 4 = 0

\* an unconditional branch word with the absolute bit clear and the link
\* bit set
RelativeLinkBranch(i) == Opcode(i) = OP_B /\ i[2] % 4 = 1

\* C31: pc is a multiple of 4 in every reachable state.
C31_PcAligned == Aligned(state.pc)

\* from an aligned pc and an aligned link register every step other than a
\* relative branch with the link bit leaves pc aligned, and every poll does
AlignedButRelativeLink ==
    [][/\ (ExecuteStep /\ Aligned(state.pc) /\ Aligned(state.spr[LR])
              /\ ~RelativeLinkBranch(Fetched)) => Aligned(state'.pc)
       /\ (PollStep /\ Aligned(state.pc)) => Aligned(state'.pc)]_vars

\* bl +8 at 0x80000000 (word 0x48000009) was executed and left pc = 0x80000009
RelativeLinkMisaligns ==
    /\ phase = "poll"
    /\ trace.steps = 1
    /\ trace.arg = EncB(8, 0, 1)
    /\ state.pc = U32(32768, 9)
    /\ state.spr[LR] = U32(32768, 4)

\* load_game succeeds with an image that holds the boot stub word at the
\* system-call vector
LoadTrapGame ==
    /\ phase = "load"
    /\ \E img \in StubImages : memory' = img
    /\ state' = [CPUState EXCEPT !.pc = KERNEL_BASE_ADDR]
    /\ phase' = "fetch"
    /\ trace' = Log("load_game", <<>>, <<>>)
    /\ UNCHANGED <<framebuffer, starlet_memory, interrupt_vectors, audio_state, NoUnit>>

NextTrap ==
    \/ InitializeSubsystems
    \/ LoadTrapGame
    \/ LoadGameFails
    \/ QuitEvent
    \/ IssueCommand
    \/ Execute
    \/ Poll

\* the loop of main never pauses between two iterations: while the loop
\* condition holds the next instruction is executed and the coprocessor is
\* polled; a quit event and a coprocessor request may or may not arrive
SpecTrap == Init /\ [][NextTrap]_vars /\ WF_vars(Execute) /\ WF_vars(Poll)

\* the addresses of the first words of the image
TrapSites == {AddInt(KERNEL_BASE_ADDR, 4 * k) : k \in 0..MaxSteps}

\* the system call at p has just been executed with interrupts armed: pc is
\* at the system-call vector, which holds the boot stub word
TrapTaken(p) ==
    /\ phase = "poll"
    /\ trace.op = "execute"
    /\ Opcode(trace.arg) = OP_SC
    /\ trace.triggers = <<SYSCALL_IRQ>>
    /\ state.spr[LR] = p
    /\ state.pc = KernelVectors[SYSCALL_IRQ]
    /\ ~state.interrupts_enabled
    /\ read_word(memory, KernelVectors[SYSCALL_IRQ]) = RFI_STUB

OnStub ==
    /\ phase \in {"fetch", "poll"}
    /\ state.pc = KernelVectors[SYSCALL_IRQ]
    /\ ~state.interrupts_enabled
    /\ read_word(memory, KernelVectors[SYSCALL_IRQ]) = RFI_STUB

\* what holds instead: no step of the loop leaves that situation, however
\* many steps follow
StubHoldsPc == [][(OnStub /\ phase' # "exit") => OnStub']_vars

\* a return from interrupt is executed while an interrupt entry is
\* outstanding
ReturnStep == ExecuteStep /\ Opcode(Fetched) = OP_RFI /\ Len(trace.saved) = 2

\* C34: when an interrupt that was taken is returned from, the link
\* register again holds the value it held when the interrupt was entered.
C34_LinkPreserved == [][ReturnStep => state'.spr[LR] = trace.saved]_vars

\* what holds instead: the entry overwrites the link register with the pc
\* of the interrupted program, and the return leaves that value in it
EntryOverwritesLink ==
    [][/\ ((ExecuteStep \/ PollStep) /\ trace'.triggers # <<>>
              /\ state.interrupts_enabled) => state'.spr[LR] = state.pc
       /\ ReturnStep => (state'.spr[LR] = state.spr[LR] /\ state'.pc = state.spr[LR])]_vars

\* bla 16 at 0x80000004 latched 0x80000008; the coprocessor interrupt was
\* taken at pc = 16 and its handler returned: the link register holds 16
LinkLost ==
    /\ phase = "poll"
    /\ trace.steps = 4
    /\ trace.arg = EncOp(OP_RFI)
    /\ state.pc = U32(0, 16)
    /\ state.spr[LR] = U32(0, 16)
    /\ state.interrupts_enabled

\* the poll handles a block-transfer command
TransferStep ==
    PollStep /\ starlet_memory.command \in {U32(0, CMD_READ), U32(0, CMD_WRITE)}

\* the three words of the parameter block, as the handler reads them
ParamSrc == read_word(memory, starlet_memory.param_addr)
ParamDest == read_word(memory, AddInt(starlet_memory.param_addr, 4))
ParamCount == ToInt(read_word(memory, AddInt(starlet_memory.param_addr, 8)))

\* offset in the buffer of byte k of the range that starts at address a
ByteOffset(a, k) == translate_address(AddInt(a, k))

\* the values the loop counter takes for a byte count
LoopOffsets(count) == {i \in 0..(count - 1) : i % 4 = 0}

\* no word access of the transfer faults
TransferLands ==
    \A i \in LoopOffsets(ParamCount) :
        /\ ~FaultsAt(ByteOffset(ParamSrc, i), MEMORY_SIZE)
        /\ ~FaultsAt(ByteOffset(ParamDest, i), MEMORY_SIZE)

\* the bytes the loop reads and the bytes it writes lie at different offsets
TransferDisjoint ==
    \A i, j \in LoopOffsets(ParamCount) : \A a, b \in 0..3 :
        ByteOffset(ParamSrc, i + a) # ByteOffset(ParamDest, j + b)

\* after the command byte k of the destination holds what byte k of the
\* source held before it, for every k below the byte count
TransferCopies ==
    \A k \in 0..(ParamCount - 1) :
        MemByte(memory', ByteOffset(ParamDest, k)) = MemByte(memory, ByteOffset(ParamSrc, k))

\* C36: after a block-transfer command whose ranges do not fault, the count
\* bytes at the destination equal the count bytes that were at the source
\* before the command, also when the two ranges overlap.
C36_TransferCorrect == [][(TransferStep /\ TransferLands) => TransferCopies]_vars

\* what holds instead: the same for ranges that share no byte
TransferCorrectDisjoint ==
    [][(TransferStep /\ TransferLands /\ TransferDisjoint) => TransferCopies]_vars

\* 8 bytes were transferred from 0x80000200 to 0x80000204: the second word
\* of the destination holds the first word of the source, not the second
TransferSmears ==
    /\ phase = "fetch"
    /\ trace.op = "poll"
    /\ trace.arg \in {U32(0, CMD_READ), U32(0, CMD_WRITE)}
    /\ read_word(memory, P1) = U32(32768, 512)
    /\ read_word(memory, AddInt(P1, 4)) = U32(32768, 516)
    /\ read_word(memory, AddInt(P1, 8)) = U32(0, 8)
    /\ starlet_memory.param_addr = P1
    /\ read_word(memory, U32(32768, 516)) = SourceData[1]
    /\ read_word(memory, U32(32768, 520)) = SourceData[1]
    /\ SourceData[2] # SourceData[1]

\* the offsets of the first n bytes of the destination range
DestOffsets(n) == {ByteOffset(ParamDest, k) : k \in 0..(n - 1)}

\* no byte of memory at an offset outside the set changes in the step
OnlyChanges(offsets) ==
    \A p \in (DOMAIN memory \cup DOMAIN memory') \ offsets :
        MemByte(memory', p) = MemByte(memory, p)

\* C37: a block-transfer command with any byte count changes no byte of
\* memory outside the count bytes of the destination range.
C37_TransferFrame == [][TransferStep => OnlyChanges(DestOffsets(ParamCount))]_vars

\* what holds instead: no byte changes outside the destination range of
\* the byte count rounded up to a multiple of 4
TransferFrameRounded ==
    [][TransferStep => OnlyChanges(DestOffsets(4 * ((ParamCount + 3) \div 4)))]_vars

\* 6 bytes were to be transferred from 0x80000200 to 0x80000300: bytes 6
\* and 7 after the destination hold bytes 6 and 7 of the source
TransferOverruns ==
    /\ phase = "fetch"
    /\ trace.op = "poll"
    /\ trace.arg \in {U32(0, CMD_READ), U32(0, CMD_WRITE)}
    /\ starlet_memory.param_addr = P1
    /\ read_word(memory, AddInt(P1, 4)) = U32(32768, 768)
    /\ read_word(memory, AddInt(P1, 8)) = U32(0, 6)
    /\ read_word(memory, U32(32768, 768)) = SourceData[1]
    /\ read_word(memory, U32(32768, 772)) = SourceData[2]
    /\ MemByte(memory, U32(0, 774)) = 119
    /\ MemByte(memory, U32(0, 775)) = 136

\* trigger_interrupt is called in the step while interrupts are disarmed
TriggerWhileDisarmed ==
    (ExecuteStep \/ PollStep) /\ trace'.triggers # <<>> /\ ~state.interrupts_enabled

\* the step delivers an interrupt: interrupts go from armed to disarmed
InterruptEntry == state.interrupts_enabled /\ ~state'.interrupts_enabled

\* C39: a trigger while interrupts are disarmed leaves the processor state
\* as it is (but for the cycle count of an executed instruction), so
\* nothing is kept of it; a return from interrupt arms the interrupts,
\* calls no trigger and sets pc to the link register; an interrupt is
\* entered only in a step that calls trigger while interrupts are armed;
\* and interrupts are armed only by a return from interrupt, so none is
\* delivered from boot before one has executed.
C39_DiscardedNotPended ==
    [][/\ TriggerWhileDisarmed =>
            state' = [state EXCEPT !.cycle_count =
                         IF ExecuteStep THEN state.cycle_count + 1 ELSE state.cycle_count]
       /\ (ExecuteStep /\ Opcode(Fetched) = OP_RFI) =>
            /\ trace'.triggers = <<>>
            /\ state'.interrupts_enabled
            /\ state'.pc = state.spr[LR]
            /\ state'.spr = state.spr
       /\ InterruptEntry =>
            /\ Len(trace'.triggers) = 1
            /\ state'.pc = get_interrupt_vector(trace'.triggers[1], interrupt_vectors)
            /\ state'.spr[LR] = state.pc
       /\ (~state.interrupts_enabled /\ state'.interrupts_enabled) =>
            (ExecuteStep /\ Opcode(Fetched) = OP_RFI)]_vars

\* a command completed in the first poll with interrupts disarmed; the rfi
\* executed next armed them and went to the link register, not to the vector
C39_Witness ==
    /\ phase = "poll"
    /\ trace.steps = 2
    /\ trace.arg = EncOp(OP_RFI)
    /\ trace.issued = 1
    /\ starlet_memory.status = STATUS_DONE
    /\ starlet_memory.command = Zero32
    /\ state.interrupts_enabled
    /\ state.pc = Zero32
    /\ state.spr[LR] = Zero32

----------------------------------------------------------------------------
(* src/emuwiiv0.cpp : the 16 MB draft, fetch / execute and the loop of main *)

V0_NOP == 0
V0_ADDI == 20
V0_ADD == 16
V0_SUB == 8
V0_MUL == 12
V0_ANDI == 4
V0_ORI == 10
V0_BEQ == 2
V0_BNE == 3
V0_LW == 32
V0_SW == 40
V0_HALT == 63

\* CPUState(): pc(0), running(true), gpr zeroed
v0_CPUState == [pc |-> Zero32, gpr |-> [r \in 0..31 |-> Zero32], running |-> TRUE]

\* fetch_instruction: the state after the call and the word returned
v0_fetch_instruction(st, mem) ==
    IF v0_OutOfBounds(st.pc)
    THEN [state |-> [st EXCEPT !.running = FALSE], instruction |-> Zero32]
    ELSE [state |-> [st EXCEPT !.pc = AddInt(st.pc, 4)],
          instruction |-> v0_read_word(mem, st.pc)]

\* int32_t address = state.gpr[rA] + imm_signed
v0_Address(instruction, st) == AddInt(st.gpr[Field16(instruction)], Imm16(instruction))

\* address < 0 || address > MEMORY_SIZE - 4
v0_BadAddress(address) == Neg32Sign(address) \/ v0_OutOfBounds(address)

\* state.pc += static_cast<int32_t>(offset) << 2
v0_Branch(instruction, st) == [st EXCEPT !.pc = AddInt(st.pc, 4 * Imm16(instruction))]

\* execute_instruction: the state and the buffer after the call
v0_execute_instruction(instruction, st, mem) ==
    LET opcode == Opcode(instruction)
        rD == Field21(instruction)
        rA == Field16(instruction)
        rB == Field11(instruction)
        set(v) == [state |-> [st EXCEPT !.gpr[rD] = v], memory |-> mem]
        only(st2) == [state |-> st2, memory |-> mem]
        stop == only([st EXCEPT !.running = FALSE])
    IN CASE opcode = V0_NOP -> only(st)
         [] opcode = V0_ADDI -> set(AddInt(st.gpr[rA], Imm16(instruction)))
         [] opcode = V0_ADD -> set(Add32(st.gpr[rA], st.gpr[rB]))
         [] opcode = V0_SUB -> set(Sub32(st.gpr[rA], st.gpr[rB]))
         [] opcode = V0_MUL -> set(Mul32(st.gpr[rA], st.gpr[rB]))
         [] opcode = V0_ANDI -> set(And32(st.gpr[rA], U32(0, instruction[2])))
         [] opcode = V0_ORI -> set(Or32(st.gpr[rA], U32(0, instruction[2])))
         \* the branches compare the registers named by bits 21..25 and 16..20
         [] opcode = V0_BEQ ->
              only(IF st.gpr[rD] = st.gpr[rA] THEN v0_Branch(instruction, st) ELSE st)
         [] opcode = V0_BNE ->
              only(IF st.gpr[rD] # st.gpr[rA] THEN v0_Branch(instruction, st) ELSE st)
         [] opcode = V0_LW ->
              IF v0_BadAddress(v0_Address(instruction, st)) THEN stop
              ELSE set(v0_read_word(mem, v0_Address(instruction, st)))
         [] opcode = V0_SW ->
              IF v0_BadAddress(v0_Address(instruction, st)) THEN stop
              ELSE [state |-> st,
                    memory |-> v0_write_word(mem, v0_Address(instruction, st), st.gpr[rD])]
         [] opcode = V0_HALT -> stop
         [] OTHER -> stop

\* a word with its four bytes in the opposite order
ByteSwap(w) == U32((w[2] % 256) * 256 + (w[2] \div 256), (w[1] % 256) * 256 + (w[1] \div 256))

\* a binary file whose words the draft reads back least significant byte first
v0_Program(words) == Program([i \in DOMAIN words |-> ByteSwap(words[i])])

\* binaries loaded at offset 0: arithmetic and a store/load pair ended by
\* HALT, an unknown opcode (0x19), loads and stores at a negative address
\* and beyond the buffer, taken and untaken branches, a branch to
\* 0xFFFFFFFC (pc leaves the buffer), and the empty file
v0_Images ==
    {v0_Program(<<EncI(V0_ADDI, 1, 0, 5), EncI(V0_ADDI, 2, 0, -7), EncR(op, 3, 1, 2),
                  EncOp(V0_HALT)>>) : op \in {V0_ADD, V0_SUB, V0_MUL}}
    \cup {v0_Program(<<EncI(V0_ADDI, 1, 0, -256), EncI(op, 2, 1, 4080), EncOp(V0_HALT)>>) :
             op \in {V0_ANDI, V0_ORI}}
    \cup {v0_Program(<<EncI(V0_ADDI, 1, 0, 4660), EncI(V0_SW, 1, 0, 64),
                       EncI(V0_LW, 2, 0, 64), EncOp(last)>>) : last \in {V0_HALT, 25}}
    \cup {v0_Program(<<EncI(V0_ADDI, 1, 0, a), EncI(op, 2, 1, 0), EncOp(V0_HALT)>>) :
             a \in {-1, 8}, op \in {V0_LW, V0_SW}}
    \cup {v0_Program(<<EncI(V0_ORI, 1, 0, 256), EncR(V0_MUL, 1, 1, 1), EncR(V0_MUL, 1, 1, 1),
                       EncI(op, 2, 1, -3)>>) : op \in {V0_LW, V0_SW}}
    \cup {v0_Program(<<EncI(V0_ADDI, 1, 0, a), EncI(op, 1, 0, 1), EncOp(25),
                       EncOp(V0_HALT)>>) : a \in {0, 1}, op \in {V0_BEQ, V0_BNE}}
    \cup {v0_Program(<<EncI(V0_BEQ, 0, 0, -2)>>), v0_Program(<<EncOp(25)>>), EmptyMap}

InitV0Loop ==
    /\ phase = "v0_load"
    /\ state = v0_CPUState
    /\ memory = EmptyMap
    /\ framebuffer = EmptyMap
    /\ starlet_memory = wiiemu_StarletMemory
    /\ interrupt_vectors = EmptyMap
    /\ audio_state = [initialized |-> FALSE, buffer |-> EmptyMap]
    /\ mem1 = EmptyMap
    /\ mem2 = EmptyMap
    /\ io = <<>>
    /\ trace = [op |-> "init", arg |-> Zero32, quit |-> FALSE, steps |-> 0, issued |-> 0,
                 ran |-> <<>>]

NoV0Loop == <<framebuffer, starlet_memory, interrupt_vectors, audio_state, NoUnit>>

\* load_binary succeeds: the file is read into memory[] from offset 0
v0_LoadBinary ==
    /\ phase = "v0_load"
    /\ \E img \in v0_Images : memory' = img
    /\ phase' = "v0_loop"
    /\ trace' = [trace EXCEPT !.op = "load_binary"]
    /\ UNCHANGED <<state, NoV0Loop>>

\* load_binary fails: return 1
v0_LoadBinaryFails ==
    /\ phase = "v0_load"
    /\ phase' = "v0_exit"
    /\ trace' = [trace EXCEPT !.op = "load_binary_failed"]
    /\ UNCHANGED <<state, memory, NoV0Loop>>

\* one iteration of while (cpuState.running): fetch_instruction, then
\* execute_instruction on the word it returned.  trace.ran is the value of
\* running at the two calls.
v0_Step ==
    /\ phase = "v0_loop"
    /\ LoopCondition(state)
    /\ trace.steps < MaxSteps
    /\ \E f \in {v0_fetch_instruction(state, memory)} :
       \E r \in {v0_execute_instruction(f.instruction, f.state, memory)} :
          /\ state' = r.state
          /\ memory' = r.memory
          /\ trace' = [trace EXCEPT !.op = "step", !.arg = f.instruction,
                                    !.steps = trace.steps + 1,
                                    !.ran = <<state.running, f.state.running>>]
    /\ UNCHANGED <<phase, NoV0Loop>>

\* the loop condition fails: main returns
v0_Exit ==
    /\ phase = "v0_loop"
    /\ ~LoopCondition(state)
    /\ phase' = "v0_exit"
    /\ trace' = [trace EXCEPT !.op = "exit"]
    /\ UNCHANGED <<state, memory, NoV0Loop>>

\* the emulation loops of src/wiiemu.cpp and of the 16 MB draft, side by side
InitLoop == InitWiiemu \/ InitV0Loop

NextLoop ==
    \/ wiiemu_LoadGame
    \/ wiiemu_LoadGameFails
    \/ wiiemu_IssueCommand
    \/ wiiemu_Step
    \/ wiiemu_Exit
    \/ v0_LoadBinary
    \/ v0_LoadBinaryFails
    \/ v0_Step
    \/ v0_Exit

SpecLoop == InitLoop /\ [][NextLoop]_vars

\* the transition is one iteration of either loop
LoopIteration == phase \in {"wiiemu_loop", "v0_loop"} /\ trace'.steps = trace.steps + 1

AllTrue(flags) == \A i \in DOMAIN flags : flags[i]

\* C20: whenever an instruction is fetched or executed, or the coprocessor
\* is polled, running is true (trace.ran holds running at each of those
\* calls of the iteration).
C20_RunningAtEveryCall ==
    [][LoopIteration => AllTrue(trace'.ran)]_vars

\* C20, as the loops have it: running is true when an iteration begins, and
\* once the loop condition has seen running = false nothing is fetched,
\* executed or polled any more; within the iteration that clears running
\* the remaining calls are still made: in src/wiiemu.cpp running at the
\* fetch and at the execute is false exactly when the quit event was seen
\* at the start of that iteration, and at the poll it is false exactly when
\* the quit event was seen or the executed opcode was unknown; in the 16 MB
\* draft running is true at the fetch, and at the execute it is false
\* exactly when the fetch found pc beyond the buffer.
C20_LoopExit ==
    [][/\ LoopIteration => state.running
       /\ phase \in {"wiiemu_exit", "v0_exit"} => UNCHANGED vars
       /\ (LoopIteration /\ phase = "wiiemu_loop") =>
            /\ trace'.ran[1] = ~trace'.quit
            /\ trace'.ran[2] = ~trace'.quit
            /\ trace'.ran[3] = (~trace'.quit /\ Opcode(trace'.arg) \in wiiemu_KnownOpcodes)
       /\ (LoopIteration /\ phase = "v0_loop") =>
            /\ trace'.ran[1]
            /\ trace'.ran[2] = ~v0_OutOfBounds(state.pc)]_vars

\* the quit event was seen at the start of the second iteration of
\* src/wiiemu.cpp: the ADD at pc 4 was still fetched and executed and the
\* mailbox polled, all with running = false, and the loop has exited
C20_Witness ==
    /\ phase = "wiiemu_exit"
    /\ trace.op = "exit"
    /\ trace.quit
    /\ trace.steps = 2
    /\ trace.ran = <<FALSE, FALSE, FALSE>>
    /\ Opcode(trace.arg) = OP_ADD
    /\ state.pc = U32(0, 8)
    /\ ~state.running

\* the branch at offset 0 of the 16 MB draft left pc at 0xFFFFFFFC; the
\* second fetch cleared running and the word 0 was still executed
V0_FetchStops ==
    /\ phase = "v0_loop"
    /\ trace.steps = 2
    /\ trace.ran = <<TRUE, FALSE>>
    /\ trace.arg = Zero32
    /\ state.pc = U32(65535, 65532)
    /\ ~state.running

----------------------------------------------------------------------------
(* src/emuwiiv1.cpp : the copy loop of handle_starlet_command, one action  *)
(* per iteration                                                           *)

MaxIter == 3

\* byte counts read from the parameter block: 0, 1, 4, 6, 8, 0xFFFFFFFC,
\* 0xFFFFFFFD, 0xFFFFFFFF
CopySizes ==
    {Zero32, U32(0, 1), U32(0, 4), U32(0, 6), U32(0, 8), U32(65535, 65532),
     U32(65535, 65533), U32(65535, 65535)}

\* values of the loop counter at which a run is picked up: 0, and
\* 0xFFFFFFF8, which the loop reaches from 0 when every smaller multiple
\* of 4 is below the byte count
CopyStarts == {Zero32, U32(65535, 65528)}

\* the loop `for (uint32_t i = 0; i < size; i += 4)` after trace.n
\* iterations of this run, with the locals src_addr, dest_addr and size
\* already read from the parameter block.  The condition and the counter
\* do not depend on the buffer; the buffer of a run picked up at
\* 0xFFFFFFF8 is drawn like that of a run picked up at 0.
InitCopy ==
    /\ phase = "copy"
    /\ state = CPUState
    /\ memory \in {EmptyMap, FilledBuffer}
    /\ framebuffer = EmptyMap
    /\ \E c \in {CMD_READ, CMD_WRITE} :
          starlet_memory = [StarletMemory EXCEPT !.command = U32(0, c)]
    /\ interrupt_vectors = KernelVectors
    /\ audio_state = AudioState
    /\ mem1 = EmptyMap
    /\ mem2 = EmptyMap
    /\ io = <<>>
    /\ \E i \in CopyStarts, size \in CopySizes, src \in SrcAddrs \cup {Zero32},
          dest \in DestAddrs :
          /\ i = Zero32 \/ Lt32(i, size)
          /\ trace = [op |-> "enter", i |-> i, size |-> size, src_addr |-> src,
                      dest_addr |-> dest, n |-> 0]

\* one pass through the body: i < size holds, the word is copied, i += 4
CopyIteration ==
    /\ phase = "copy"
    /\ Lt32(trace.i, trace.size)
    /\ trace.n < MaxIter
    /\ \E data \in {read_word(memory, Add32(trace.src_addr, trace.i))} :
       \E w \in {write_word(memory, framebuffer, Add32(trace.dest_addr, trace.i), data)} :
          /\ memory' = w[1]
          /\ framebuffer' = w[2]
    /\ trace' = [trace EXCEPT !.op = "iteration", !.i = AddInt(trace.i, 4),
                               !.n = trace.n + 1]
    /\ UNCHANGED <<phase, state, starlet_memory, interrupt_vectors, audio_state, NoUnit>>

\* i < size fails: response, status, command are written and the
\* completion interrupt is triggered
CopyExit ==
    /\ phase = "copy"
    /\ ~Lt32(trace.i, trace.size)
    /\ \E r \in {StarletDone(state, starlet_memory, interrupt_vectors,
                              <<memory, framebuffer>>, <<audio_state, RESP_OK>>)} :
          /\ state' = r.state
          /\ starlet_memory' = r.starlet_memory
    /\ phase' = "copied"
    /\ trace' = [trace EXCEPT !.op = "exit"]
    /\ UNCHANGED <<memory, framebuffer, interrupt_vectors, audio_state, NoUnit>>

NextCopy ==
    \/ CopyIteration
    \/ CopyExit

SpecCopy == InitCopy /\ [][NextCopy]_vars

\* C35: the copy loop terminates for every 32-bit byte count: every
\* iteration moves the counter up, closer to the byte count, and never back
\* to a value it had before.
C35_CopyTerminates ==
    [][trace'.op = "iteration" => Lt32(trace.i, trace'.i)]_vars

\* what holds instead: the counter moves up in every iteration when the
\* byte count is at most 0xFFFFFFFC, and when the loop is left the status
\* is set and the command is reset
CopyTerminatesBelowWrap ==
    [][/\ (trace'.op = "iteration" /\ Le32(trace.size, U32(65535, 65532))) =>
            Lt32(trace.i, trace'.i)
       /\ trace'.op = "exit" =>
            /\ starlet_memory'.status = STATUS_DONE
            /\ starlet_memory'.command = Zero32]_vars

\* with byte count 0xFFFFFFFD the iteration at i = 0xFFFFFFFC has brought
\* the counter back to 0, where the loop started and its condition holds
CopyCounterWraps ==
    /\ phase = "copy"
    /\ trace.op = "iteration"
    /\ trace.n = 2
    /\ trace.size = U32(65535, 65533)
    /\ trace.i = Zero32
    /\ Lt32(trace.i, trace.size)
    /\ starlet_memory.command # Zero32

----------------------------------------------------------------------------
(* src/emuwiiv0.cpp : the first draft (lines 1-196), fetch_instruction     *)
(* with the instruction cache                                              *)

MaxCacheOps == 4

\* address >= MEMORY_SIZE - 4
v0a_OutOfBounds(address) == Le32(AddInt(v0_MEMORY_SIZE, -4), address)

\* *reinterpret_cast<uint32_t*>(&memory[address]): the four bytes in the
\* byte order of the host
v0a_read_word(mem, address, little) ==
    IF v0a_OutOfBounds(address) THEN Zero32
    ELSE IF little
    THEN U32(MemByte(mem, AddInt(address, 3)) * 256 + MemByte(mem, AddInt(address, 2)),
             MemByte(mem, AddInt(address, 1)) * 256 + MemByte(mem, address))
    ELSE U32(MemByte(mem, address) * 256 + MemByte(mem, AddInt(address, 1)),
             MemByte(mem, AddInt(address, 2)) * 256 + MemByte(mem, AddInt(address, 3)))

v0a_write_word(mem, address, value, little) ==
    IF v0a_OutOfBounds(address) THEN mem
    ELSE LET b == IF little
                  THEN <<value[2] % 256, value[2] \div 256, value[1] % 256, value[1] \div 256>>
                  ELSE <<value[1] \div 256, value[1] % 256, value[2] \div 256, value[2] % 256>>
             m0 == Store(mem, address, b[1], 0)
             m1 == Store(m0, AddInt(address, 1), b[2], 0)
             m2 == Store(m1, AddInt(address, 2), b[3], 0)
         IN Store(m2, AddInt(address, 3), b[4], 0)

\* fetch_instruction of the first draft: a pc found in instruction_cache
\* returns the cached word; otherwise the word is read, cached, and pc += 4
v0a_fetch_instruction(st, mem, cache, little) ==
    IF v0a_OutOfBounds(st.pc)
    THEN [state |-> [st EXCEPT !.running = FALSE], instruction |-> Zero32, cache |-> cache]
    ELSE IF st.pc \in DOMAIN cache
    THEN [state |-> st, instruction |-> cache[st.pc], cache |-> cache]
    ELSE LET instruction == v0a_read_word(mem, st.pc, little)
         IN [state |-> [st EXCEPT !.pc = AddInt(st.pc, 4)], instruction |-> instruction,
             cache |-> (st.pc :> instruction) @@ cache]

\* 0x11223344, 0x000000FF
CacheValues == {U32(4386, 13124), U32(0, 255)}

\* addresses of the stores: the first three words of the buffer
CacheStoreAddrs == {Zero32, U32(0, 4), U32(0, 8)}

\* word displacements of the taken branches
CacheBranchOffsets == {-2, -1, 1}

\* the first draft with an image of three words loaded at 0, pc = 0 and an
\* empty instruction_cache, on a little- or big-endian host
InitCache ==
    /\ phase = "cache"
    /\ state = v0_CPUState
    /\ memory \in {v0_Program(<<U32(1, 2), U32(3, 4), U32(5, 6)>>), EmptyMap}
    /\ framebuffer = EmptyMap
    /\ starlet_memory = StarletMemory
    /\ interrupt_vectors = EmptyMap
    /\ audio_state = [initialized |-> FALSE, buffer |-> EmptyMap]
    /\ mem1 = EmptyMap
    /\ mem2 = EmptyMap
    /\ \E little \in BOOLEAN : io = [instruction_cache |-> <<>>, little |-> little]
    /\ trace = [op |-> "init", pc |-> Zero32, result |-> Zero32, n |-> 0]

NoCache == <<phase, framebuffer, starlet_memory, interrupt_vectors, audio_state, mem1, mem2>>

\* fetch_instruction(state)
CacheFetch ==
    /\ state.running
    /\ trace.n < MaxCacheOps
    /\ \E r \in {v0a_fetch_instruction(state, memory, io.instruction_cache, io.little)} :
          /\ state' = r.state
          /\ io' = [io EXCEPT !.instruction_cache = r.cache]
          /\ trace' = [op |-> "fetch", pc |-> state.pc, result |-> r.instruction,
                       n |-> trace.n + 1]
    /\ UNCHANGED <<memory, NoCache>>

\* execute_instruction, a taken BEQ / BNE: state.pc += offset << 2
CacheBranch ==
    /\ state.running
    /\ trace.n < MaxCacheOps
    /\ \E offset \in CacheBranchOffsets :
          /\ state' = [state EXCEPT !.pc = AddInt(state.pc, 4 * offset)]
          /\ trace' = [op |-> "branch", pc |-> state.pc, result |-> Zero32,
                       n |-> trace.n + 1]
    /\ UNCHANGED <<memory, io, NoCache>>

\* execute_instruction, SW with an address in bounds: write_word(address, value)
CacheStore ==
    /\ state.running
    /\ trace.n < MaxCacheOps
    /\ \E address \in CacheStoreAddrs, value \in CacheValues :
          /\ memory' = v0a_write_word(memory, address, value, io.little)
          /\ trace' = [op |-> "store", pc |-> address, result |-> value, n |-> trace.n + 1]
    /\ UNCHANGED <<state, io, NoCache>>

NextCache ==
    \/ CacheFetch
    \/ CacheBranch
    \/ CacheStore

SpecCache == InitCache /\ [][NextCache]_vars

\* a fetch with pc inside the buffer
FetchInBounds == trace'.op = "fetch" /\ ~v0a_OutOfBounds(state.pc)

\* C38: the cached fetch returns the word currently stored in memory at pc
\* and advances pc by 4, as the uncached fetch_instruction does, whether or
\* not pc has been fetched before.
C38_CacheTransparent ==
    [][FetchInBounds =>
          /\ trace'.result = v0a_read_word(memory, state.pc, io.little)
          /\ state'.pc = AddInt(state.pc, 4)
          /\ io.little =>
                [state |-> state', instruction |-> trace'.result]
                   = v0_fetch_instruction(state, memory)]_vars

\* what holds instead: the same for a pc that is not in the cache; for a pc
\* that is, the cached word is returned and pc stays
CacheMissTransparent ==
    [][FetchInBounds =>
          IF state.pc \in DOMAIN io.instruction_cache
          THEN /\ trace'.result = io.instruction_cache[state.pc]
               /\ state' = state
          ELSE /\ trace'.result = v0a_read_word(memory, state.pc, io.little)
               /\ state'.pc = AddInt(state.pc, 4)
               /\ io.little =>
                     [state |-> state', instruction |-> trace'.result]
                        = v0_fetch_instruction(state, memory)]_vars

\* pc 0 was fetched, 0x11223344 was stored at 0, a branch went back to 0 and
\* the second fetch returned the old word 0x00010002 and left pc at 0
CacheStaleAndStuck ==
    /\ trace.op = "fetch"
    /\ trace.n = 4
    /\ trace.pc = Zero32
    /\ trace.result = U32(1, 2)
    /\ v0a_read_word(memory, Zero32, io.little) = U32(4386, 13124)
    /\ state.pc = Zero32
    /\ state.running

====
